---- MODULE Spec2Model ----
(***************************************************************************)
(* Cluster transport of TrafficServer (iocore/cluster): one socket context *)
(* with its three priority send queues, the worker thread that owns it     *)
(* (schedule_sock_write, deal_write_event, deal_message, close_socket),    *)
(* the producers that enqueue on it from other threads, and the part of    *)
(* the connection controller that opens the socket and hands it off.       *)
(*                                                                         *)
(* Sizes are scaled down: the header length, the alignment and the writev  *)
(* limits keep their names and their roles but are small numbers, so that  *)
(* partial writes, padding and every stop condition occur.                 *)
(***************************************************************************)
EXTENDS Integers, Sequences, FiniteSets, TLC

\* ---------------------------------------------------------------- bounds
MaxMsgs == 3                  \* OutMessage records that exist at a time
MaxPush == 3                  \* enqueue attempts of the producers and pings of the peer (Spec, SpecPing)
MaxDataLen == 2               \* largest data_len of a message
LiveDataLen == 0              \* largest data_len of a message in SpecLive
MaxVersion == 9               \* largest socket version reached
MaxTime == 7                  \* last clock value (SpecPing)
MSG_HEADER_LENGTH == 2        \* scaled sizeof(MsgHeader)
ALIGN_BYTES == 2              \* scaled alignment of the payload
WRITEV_ARRAY_SIZE == 6        \* scaled size of write_vec
WRITEV_ITEM_ONCE == 2         \* scaled number of messages of one writev
WRITE_MAX_COMBINE_BYTES == 6  \* scaled number of bytes of one writev
PingInterval == 2             \* cluster_ping_send_interval when pings are on
cluster_ping_latency_threshold == 1   \* scaled, in clock ticks
cluster_ping_retries == 1     \* ping failures tolerated

\* ------------------------------------------------------ program constants
PRIORITY_COUNT == 3
MAX_SOCK_CONTEXT_COUNT == 1   \* scaled 32, the size of failSockContexts

NULL == 0
PRIORITY_HIGH == 0
DATA_TYPE_OBJECT == "object"
DATA_TYPE_BUFFER == "buffer"
FUNC_ID_CLUSTER_PING_REQUEST == "PING_REQUEST"
FUNC_ID_CLUSTER_PING_RESPONSE == "PING_RESPONSE"
FUNC_ID_USER == "USER"
EAGAIN == "EAGAIN"
ECONNRESET == "ECONNRESET"
EIO == "EIO"
OK == "0"
BUFF_TYPE_HEADER == "H"
BUFF_TYPE_DATA == "D"
BUFF_TYPE_PADDING == "P"
Unbounded == 0 - 1

MsgIds == 1..MaxMsgs
Priorities == 0..(PRIORITY_COUNT - 1)

VARIABLES
  sock,              \* SocketContext.sock: -1 when closed
  version,           \* SocketContext.version
  queue_index,       \* SocketContext.queue_index
  head, tail,        \* send_queues[p].head / .tail (a message or NULL)
  next,              \* OutMessage.next
  bytes_sent,        \* OutMessage.bytes_sent
  hdr,               \* OutMessage.header, data_type
  blocks,            \* OutMessage.blocks: read_avail of each block left
  next_write_time, next_ping_time, ping_start_time, ping_fail_count,
  connect_state,     \* where the controller has the context
  active_sockets,    \* the worker's active_sockets
  stats,             \* the worker's SocketStats
  pc,                \* position of the worker thread
  current_time,      \* schedule_sock_write's current_time
  wr,                \* deal_write_event between writev and its completion step
  clr,               \* clear_send_queue in progress: who runs it, queue reached, locals
  now,               \* the clock
  net_in,            \* frames of the peer not yet read
  peer_reqs,         \* PING_REQUESTs of this node the peer has received and not answered
  connected_list,    \* the machine's connected_list
  session,           \* the socket version a session captured at dispatch, -1 when none
  budget,            \* enqueue attempts the producers and the peer have left
  stat_on,           \* whether the statistics are observed
  cluster_ping_send_interval, send_wait_time,
  max_data_len,      \* largest data_len the producers use
  fate,              \* history: what became of each message record
  wired,             \* history: bytes of the message written to the socket
  wire_ok,           \* history: every byte written continued its frame in order
  ord,               \* history: messages accepted by push_to_send_queue, per priority, unfinished
  fifo_ok,           \* history: messages of one priority finished in the order of ord
  prio_inv,          \* history: the last batch put an unstarted message ahead of a higher priority
  close_at,          \* history: version and counters when close_socket began
  hs,                \* the handshake of one connection: both nodes' hello and what each made of it
  ctl,               \* the connection controller: its connect contexts, freelist and clock
  rd,                \* the read path of one socket: stream, reader and messages dispatched
  rr,                \* the socket context array of one machine and the calls made on it
  dm,                \* deal_message: the frame handled and what the handling called
  sw,                \* one schedule_sock_write pass over the sockets of a worker
  ch,                \* the connect thread with contexts of both roles: handshake and reaper
  ins,               \* history: the messages a thread other than the worker put at a head
  lk,                \* the locks: who holds each and what each thread has left to do
  mt                 \* the machine table: machine_sockets and the pool of socket contexts

vars == << sock, version, queue_index, head, tail, next, bytes_sent, hdr, blocks,
           next_write_time, next_ping_time, ping_start_time, ping_fail_count,
           connect_state, active_sockets, stats, pc, current_time, wr, clr, now,
           net_in, peer_reqs, connected_list, session, budget, stat_on, cluster_ping_send_interval,
           send_wait_time, max_data_len, fate, wired, wire_ok, ord, fifo_ok, prio_inv, close_at,
           hs, ctl, rd, rr, dm, sw, ch, ins, lk, mt >>

\* the send path and the ping path
niov == << sock, version, queue_index, head, tail, next, bytes_sent, hdr, blocks,
           next_write_time, next_ping_time, ping_start_time, ping_fail_count,
           connect_state, active_sockets, stats, pc, current_time, wr, clr, now,
           net_in, peer_reqs, connected_list, session, budget, stat_on, cluster_ping_send_interval,
           send_wait_time, max_data_len, fate, wired, wire_ok, ord, fifo_ok, prio_inv, close_at >>
\* the handshake, the controller, the read path, the context array, the dispatch,
\* the write pass and the connect thread
subv == << hs, ctl, rd, rr, dm, sw, ch, ins, lk, mt >>

\* ---------------------------------------------------------------- helpers
RECURSIVE SumSeq(_)
SumSeq(s) == IF s = << >> THEN 0 ELSE Head(s) + SumSeq(Tail(s))

BYTE_ALIGN(n) == ((n + ALIGN_BYTES - 1) \div ALIGN_BYTES) * ALIGN_BYTES

NoHeader == [func_id |-> "", data_len |-> 0, aligned_data_len |-> 0, data_type |-> ""]

Total(m) == MSG_HEADER_LENGTH + hdr[m].aligned_data_len

\* the messages linked from msg on, in list order
RECURSIVE Chain(_, _)
Chain(msg, n) == IF msg = NULL \/ n = 0 THEN << >> ELSE << msg >> \o Chain(next[msg], n - 1)

Queue(p) == Chain(head[p], MaxMsgs)

Queued == UNION { { Queue(p)[k] : k \in 1..Len(Queue(p)) } : p \in Priorities }

Range(s) == { s[k] : k \in 1..Len(s) }

\* get_iovec: the read_avail of the first `size` non-empty blocks
RECURSIVE get_iovec(_, _)
get_iovec(b, size) ==
  IF b = << >> \/ size <= 0 THEN << >>
  ELSE IF Head(b) > 0 THEN << Head(b) >> \o get_iovec(Tail(b), size - 1)
  ELSE get_iovec(Tail(b), size)

\* a consume that leaves the block chain as it is
consume_nothing(b, l) == b

\* consume: take l bytes from the front of the block chain
RECURSIVE consume(_, _)
consume(b, l) ==
  IF b = << >> THEN << >>
  ELSE IF l < Head(b) THEN << Head(b) - l >> \o Tail(b)
  ELSE consume(Tail(b), l - Head(b))

Bump(st, f, n) == IF stat_on THEN [st EXCEPT ![f] = @ + n] ELSE st

\* ------------------------------------------------- deal_write_event: iovec
\* One message's iovec entries appended to the batch a (header, payload, padding).
\* m and off are history: the message of the entry and the frame offset of its
\* first byte.
MsgVec(a, msg, priority) ==
  LET bs == bytes_sent[msg]
      h == hdr[msg]
      index == Len(a.send_msgs[priority])
      E(t, len, off) == [priority |-> priority, index |-> index, buff_type |-> t,
                         iov_len |-> len, m |-> msg, off |-> off]
      hv == IF bs < MSG_HEADER_LENGTH
            THEN << E(BUFF_TYPE_HEADER, MSG_HEADER_LENGTH - bs, bs) >> ELSE << >>
      vec_count == Len(a.vec) + Len(hv)
      remain_len == IF bs < MSG_HEADER_LENGTH THEN h.aligned_data_len
                    ELSE (h.aligned_data_len + MSG_HEADER_LENGTH) - bs
      pad_len == h.aligned_data_len - h.data_len
      remain_data_len == remain_len - pad_len
      lens == get_iovec(blocks[msg], WRITEV_ARRAY_SIZE - 1 - vec_count)
      read_bytes == SumSeq(lens)
      base == MSG_HEADER_LENGTH + h.data_len - SumSeq(blocks[msg])
      dv == IF remain_len > 0 /\ remain_data_len > 0
            THEN IF h.data_type = DATA_TYPE_OBJECT
                 THEN [k \in 1..Len(lens) |->
                         E(BUFF_TYPE_DATA, lens[k], base + SumSeq(SubSeq(lens, 1, k - 1)))]
                 ELSE << E(BUFF_TYPE_DATA, remain_data_len,
                           MSG_HEADER_LENGTH + h.data_len - remain_data_len) >>
            ELSE << >>
      last_msg_complete ==
        IF remain_len > 0 /\ remain_data_len > 0 /\ h.data_type = DATA_TYPE_OBJECT
        THEN read_bytes = remain_data_len ELSE TRUE
      plen == IF remain_data_len > 0 THEN pad_len ELSE remain_len
      pv == IF remain_len > 0 /\ pad_len > 0 /\ last_msg_complete
            THEN << E(BUFF_TYPE_PADDING, plen, Total(msg) - plen) >> ELSE << >>
      new == hv \o dv \o pv
  IN [a EXCEPT !.vec = @ \o new,
               !.send_msgs[priority] = Append(@, msg),
               !.total_msg_count = @ + 1,
               !.total_bytes = @ + SumSeq([k \in 1..Len(new) |-> new[k].iov_len]),
               !.last_msg_complete = last_msg_complete]

\* stop conditions that let one more message in when two slots are left
StopFetchLate(a) ==
  \/ a.total_msg_count = WRITEV_ITEM_ONCE
  \/ Len(a.vec) >= WRITEV_ARRAY_SIZE - 1
  \/ a.total_bytes >= WRITE_MAX_COMBINE_BYTES

\* the stop conditions that end the assembly of a batch
StopFetch(a) ==
  \/ a.total_msg_count = WRITEV_ITEM_ONCE
  \/ Len(a.vec) >= WRITEV_ARRAY_SIZE - 2
  \/ a.total_bytes >= WRITE_MAX_COMBINE_BYTES

\* the while loop over one queue, from msg on; pass i = 0 takes the head only
RECURSIVE Walk(_, _, _, _)
Walk(a, msg, priority, i) ==
  IF msg = NULL THEN a
  ELSE LET b == MsgVec(a, msg, priority)
       IN IF StopFetch(b) THEN [b EXCEPT !.fetch_done = TRUE]
          ELSE IF i = 0 THEN b
          ELSE Walk(b, next[msg], priority, i)

\* the for loop over the priorities, from pass i on
RECURSIVE Fetch(_, _, _)
Fetch(a, i, priority) ==
  IF i > PRIORITY_COUNT THEN a
  ELSE LET h0 == head[priority]
           msg == IF queue_index > 0 /\ i = queue_index + 1 /\ h0 # NULL
                  THEN next[h0] ELSE h0
           b == Walk(a, msg, priority, i)
       IN IF b.fetch_done THEN b
          ELSE Fetch(b, i + 1, IF i = 0 THEN 0 ELSE priority + 1)

EmptyBatch == [vec |-> << >>, send_msgs |-> [p \in Priorities |-> << >>],
               total_msg_count |-> 0, total_bytes |-> 0,
               fetch_done |-> FALSE, last_msg_complete |-> FALSE]

\* a batch assembled from the highest priority whatever queue_index is
AssembleFromHigh == Fetch(EmptyBatch, 1, 0)

\* the batch deal_write_event assembles in the current state
Assemble == Fetch(EmptyBatch, IF queue_index = 0 THEN 1 ELSE 0, queue_index)

\* --------------------------------------------- deal_write_event: accounting
\* the walk over the iovec entries after a write that did not finish the batch;
\* vi is the next entry (from 1), acc.vi the C index where the walk stopped
RECURSIVE Account(_, _, _, _)
Account(a, vi, remain, acc) ==
  IF vi > Len(a.vec) THEN [acc EXCEPT !.vi = vi - 1]
  ELSE LET e == a.vec[vi]
           msg == a.send_msgs[e.priority][e.index + 1]
           remain_bytes == remain - e.iov_len
           obj == hdr[msg].data_type = DATA_TYPE_OBJECT /\ e.buff_type = BUFF_TYPE_DATA
       IN IF remain_bytes >= 0
          THEN LET nbs == acc.bs[msg] + e.iov_len
                   acc1 == [acc EXCEPT !.bs[msg] = nbs,
                                       !.bl[msg] = IF obj THEN consume(@, e.iov_len) ELSE @]
                   acc2 == IF nbs >= Total(msg)
                           THEN [acc1 EXCEPT !.done[e.priority] = Append(@, msg),
                                             !.total_done = @ + 1]
                           ELSE acc1
               IN Account(a, vi + 1, remain_bytes, acc2)
          ELSE [acc EXCEPT !.bs[msg] = @ + remain_bytes + e.iov_len,
                           !.bl[msg] = IF obj THEN consume(@, remain_bytes + e.iov_len) ELSE @,
                           !.vi = vi - 1]

\* an accounting that takes every message of the batch for done
AccountedAllDone(a, write_bytes) ==
  [bs |-> bytes_sent, bl |-> blocks, done |-> a.send_msgs,
   total_done |-> a.total_msg_count, queue_index |-> 0]

\* what the accounting of write_bytes written bytes leaves: bytes_sent, blocks,
\* the done messages of each priority and queue_index
Accounted(a, write_bytes) ==
  IF write_bytes = a.total_bytes /\ a.last_msg_complete
  THEN [bs |-> bytes_sent, bl |-> blocks, done |-> a.send_msgs,
        total_done |-> a.total_msg_count, queue_index |-> 0]
  ELSE LET acc == Account(a, 1, write_bytes,
                          [bs |-> bytes_sent, bl |-> blocks,
                           done |-> [p \in Priorities |-> << >>],
                           total_done |-> 0, vi |-> 0])
       IN [bs |-> acc.bs, bl |-> acc.bl, done |-> acc.done, total_done |-> acc.total_done,
           queue_index |-> IF acc.vi < Len(a.vec) THEN a.vec[acc.vi + 1].priority
                           ELSE a.vec[acc.vi].priority]

\* history: the bytes of a write as they reach the socket, entry by entry
RECURSIVE WireWalk(_, _, _, _)
WireWalk(vec, k, remain, g) ==
  IF k > Len(vec) \/ remain = 0 THEN g
  ELSE LET e == vec[k]
           n == IF remain < e.iov_len THEN remain ELSE e.iov_len
           w == g.wired[e.m] + n
       IN WireWalk(vec, k + 1, remain - n,
            [wired |-> [g.wired EXCEPT ![e.m] = w],
             ok |-> g.ok /\ e.off = g.wired[e.m] /\ g.cur \in {NULL, e.m} /\ w <= Total(e.m),
             fin |-> IF w = Total(e.m) THEN Append(g.fin, e.m) ELSE g.fin,
             cur |-> IF w >= Total(e.m) THEN NULL ELSE e.m])

\* the message that is partly on the wire, if any
WireCur == IF \E m \in Queued : wired[m] > 0 /\ wired[m] < Total(m)
           THEN CHOOSE m \in Queued : wired[m] > 0 /\ wired[m] < Total(m)
           ELSE NULL

Wire(a, write_bytes) ==
  WireWalk(a.vec, 1, write_bytes, [wired |-> wired, ok |-> wire_ok, fin |-> << >>, cur |-> WireCur])

\* the queue a linked message is in
PrioOf(m) == CHOOSE p \in Priorities : m \in Range(Queue(p))

\* the messages of a batch in iovec order
RECURSIVE BatchMsgs(_, _)
BatchMsgs(vec, k) ==
  IF k > Len(vec) THEN << >>
  ELSE LET r == BatchMsgs(vec, k + 1)
       IN IF r # << >> /\ Head(r) = vec[k].m THEN r ELSE << vec[k].m >> \o r

\* history: a message not yet started gets bytes of this write while a message of
\* a higher priority, queued when the batch was assembled, is still unfinished
Inversion(a, write_bytes) ==
  LET bm == BatchMsgs(a.vec, 1)
      g == Wire(a, write_bytes)
  IN \E k \in 1..Len(bm) :
        /\ bytes_sent[bm[k]] = 0
        /\ g.wired[bm[k]] > 0
        /\ \E y \in Queued :
              /\ PrioOf(y) < PrioOf(bm[k])
              /\ \A j \in 1..(k - 1) : bm[j] # y

\* history: ord after the messages fin finished on the wire, and whether each was
\* the oldest accepted message of its priority
RECURSIVE Fifo(_, _, _)
Fifo(fin, o, ok) ==
  IF fin = << >> THEN [ord |-> o, ok |-> ok]
  ELSE LET m == Head(fin)
           p == PrioOf(m)
       IN IF m \in Range(o[p])
          THEN Fifo(Tail(fin), [o EXCEPT ![p] = SelectSeq(@, LAMBDA x : x # m)],
                    ok /\ Head(o[p]) = m)
          ELSE Fifo(Tail(fin), o, ok)

\* ------------------------------------------------------------ the queues
Free == { m \in MsgIds : fate[m] # "queued" }
NewMsg == CHOOSE m \in Free : \A k \in Free : m <= k

Spend == IF budget = Unbounded THEN budget ELSE budget - 1

\* release_out_message of the messages in S, with what became of them
Released(S, what) ==
  /\ hdr' = [m \in MsgIds |-> IF m \in S THEN NoHeader ELSE hdr[m]]
  /\ bytes_sent' = [m \in MsgIds |-> IF m \in S THEN 0 ELSE bytes_sent[m]]
  /\ blocks' = [m \in MsgIds |-> IF m \in S THEN << >> ELSE blocks[m]]
  /\ next' = [m \in MsgIds |-> IF m \in S THEN NULL ELSE next[m]]
  /\ fate' = [m \in MsgIds |-> IF m \in S THEN what ELSE fate[m]]
  /\ wired' = [m \in MsgIds |-> IF m \in S THEN 0 ELSE wired[m]]

\* a link that makes pMessage the whole queue
LinkOverHead(pMessage, priority) ==
  [head |-> [head EXCEPT ![priority] = pMessage],
   next |-> [next EXCEPT ![pMessage] = NULL],
   tail |-> [tail EXCEPT ![priority] = pMessage]]

\* a link at the head of the queue
LinkAtHead(pMessage, priority) ==
  [head |-> [head EXCEPT ![priority] = pMessage],
   next |-> [next EXCEPT ![pMessage] = head[priority]],
   tail |-> IF head[priority] = NULL THEN [tail EXCEPT ![priority] = pMessage] ELSE tail]

\* push_to_send_queue: the links after pMessage is put at the tail of the queue
LinkTail(pMessage, priority) ==
  [head |-> IF head[priority] = NULL THEN [head EXCEPT ![priority] = pMessage] ELSE head,
   next |-> IF head[priority] = NULL THEN [next EXCEPT ![pMessage] = NULL]
            ELSE [next EXCEPT ![pMessage] = NULL, ![tail[priority]] = pMessage],
   tail |-> [tail EXCEPT ![priority] = pMessage]]

\* a check of the version alone
PushAcceptedOnVersion(sessionVersion) == ~(version # sessionVersion)

\* push_to_send_queue: the check made under the queue lock
PushAccepted(sessionVersion) == ~(version # sessionVersion) /\ ~(sock < 0)

\* A producer thread appends a message with the version its session captured.
push_to_send_queue(priority, sessionVersion, h, b) ==
  /\ budget # 0
  /\ Free # { }
  /\ budget' = Spend
  /\ LET pMessage == NewMsg IN
     IF PushAccepted(sessionVersion)
     THEN LET l == LinkTail(pMessage, priority) IN
          /\ head' = l.head
          /\ tail' = l.tail
          /\ next' = l.next
          /\ hdr' = [hdr EXCEPT ![pMessage] = h]
          /\ blocks' = [blocks EXCEPT ![pMessage] = b]
          /\ bytes_sent' = [bytes_sent EXCEPT ![pMessage] = 0]
          /\ fate' = [fate EXCEPT ![pMessage] = "queued"]
          /\ wired' = [wired EXCEPT ![pMessage] = 0]
          /\ ord' = [ord EXCEPT ![priority] = Append(@, pMessage)]
          /\ stats' = Bump(stats, "push_msg_count", 1)
     ELSE /\ fate' = [fate EXCEPT ![pMessage] = "failed"]
          /\ stats' = Bump(stats, "fail_msg_count", 1)
          /\ UNCHANGED << head, tail, next, hdr, blocks, bytes_sent, wired, ord >>
  /\ UNCHANGED << sock, version, queue_index, next_write_time, next_ping_time,
                  ping_start_time, ping_fail_count, connect_state, active_sockets, pc,
                  current_time, wr, clr, now, net_in, peer_reqs, connected_list, session,
                  stat_on, cluster_ping_send_interval, send_wait_time, max_data_len, subv, wire_ok,
                  fifo_ok,
                  prio_inv, close_at >>

\* the messages a producer sends: data_len from 0 to max_data_len; the longest is an
\* object whose payload lies in blocks of one byte, the others are inline buffers
UserMessages ==
  { [h |-> [func_id |-> FUNC_ID_USER, data_len |-> n, aligned_data_len |-> BYTE_ALIGN(n),
            data_type |-> IF n = MaxDataLen THEN DATA_TYPE_OBJECT ELSE DATA_TYPE_BUFFER],
     b |-> IF n = MaxDataLen THEN [k \in 1..n |-> 1] ELSE << >>] : n \in 0..max_data_len }

Push ==
  /\ session >= 0
  /\ \E priority \in Priorities, u \in UserMessages :
        push_to_send_queue(priority, session, u.h, u.b)

\* get_socket_context: a session is given the context and captures its version
get_socket_context ==
  /\ connected_list # << >>
  /\ session # version
  /\ session' = version
  /\ UNCHANGED << sock, version, queue_index, head, tail, next, bytes_sent, hdr, blocks,
                  next_write_time, next_ping_time, ping_start_time, ping_fail_count,
                  connect_state, active_sockets, stats, pc, current_time, wr, clr, now,
                  net_in, peer_reqs, connected_list, budget, stat_on,
                  cluster_ping_send_interval, send_wait_time, max_data_len, subv, fate, wired,
                  wire_ok, ord,
                  fifo_ok, prio_inv, close_at >>

\* a head insertion that never moves tail behind a partly sent head
InsertHeadKeepsTail(pMessage, priority) ==
  IF head[priority] = NULL
  THEN [head |-> [head EXCEPT ![priority] = pMessage],
        tail |-> [tail EXCEPT ![priority] = pMessage],
        next |-> next]
  ELSE IF bytes_sent[head[priority]] = 0
  THEN [head |-> [head EXCEPT ![priority] = pMessage],
        tail |-> tail,
        next |-> [next EXCEPT ![pMessage] = head[priority]]]
  ELSE [head |-> head,
        tail |-> tail,
        next |-> [next EXCEPT ![pMessage] = next[head[priority]],
                              ![head[priority]] = pMessage]]

\* a head insertion that links nothing
InsertHeadUnlinked(pMessage, priority) == [head |-> head, tail |-> tail, next |-> next]

\* a head insertion that does not look at bytes_sent of the head
InsertHeadAheadOfStarted(pMessage, priority) == LinkAtHead(pMessage, priority)

\* insert_into_send_queue_head: the links after pMessage is put at the head
InsertHead(pMessage, priority) ==
  IF head[priority] = NULL
  THEN [head |-> [head EXCEPT ![priority] = pMessage],
        tail |-> [tail EXCEPT ![priority] = pMessage],
        next |-> next]
  ELSE IF bytes_sent[head[priority]] = 0
  THEN [head |-> [head EXCEPT ![priority] = pMessage],
        tail |-> tail,
        next |-> [next EXCEPT ![pMessage] = head[priority]]]
  ELSE [head |-> head,
        tail |-> IF next[head[priority]] = NULL
                 THEN [tail EXCEPT ![priority] = pMessage] ELSE tail,
        next |-> [next EXCEPT ![pMessage] = next[head[priority]],
                              ![head[priority]] = pMessage]]

PingHeader(func_id) == [func_id |-> func_id, data_len |-> 0, aligned_data_len |-> BYTE_ALIGN(0),
                        data_type |-> DATA_TYPE_BUFFER]

\* cluster_send_msg_internal_ex(..., NULL, 0, PRIORITY_HIGH, insert_into_send_queue_head):
\* a message without payload is put at the head of the high priority queue
SendHead(func_id) ==
  LET pMessage == NewMsg
      l == InsertHead(pMessage, PRIORITY_HIGH)
  IN /\ Free # { }
     /\ head' = l.head
     /\ tail' = l.tail
     /\ next' = l.next
     /\ hdr' = [hdr EXCEPT ![pMessage] = PingHeader(func_id)]
     /\ blocks' = [blocks EXCEPT ![pMessage] = << >>]
     /\ bytes_sent' = [bytes_sent EXCEPT ![pMessage] = 0]
     /\ fate' = [fate EXCEPT ![pMessage] = "queued"]
     /\ wired' = [wired EXCEPT ![pMessage] = 0]

cfgv == << stat_on, cluster_ping_send_interval, send_wait_time, max_data_len >>
pingv == << next_ping_time, ping_start_time, ping_fail_count >>
linkv == << head, tail, next >>
msgv == << hdr, blocks, bytes_sent >>
histv == << wire_ok, ord, fifo_ok, prio_inv, close_at >>

NoWr == [result |-> "", done |-> [p \in Priorities |-> << >>]]
NoClr == [who |-> "none", i |-> 0, count |-> 0, drop_bytes |-> 0]
NoClose == [version |-> 0, drop_msg_count |-> 0, drop_bytes |-> 0, count |-> 0, bytes |-> 0]

Active == active_sockets # << >>

\* ------------------------------------------------- schedule_sock_write
\* the ping sent at ping_start_time is overdue at time t
PingTimedOut(t) == t - ping_start_time > cluster_ping_latency_threshold

\* a test that closes at cluster_ping_retries failures
TooManyPingFailuresFrom(count) == count >= cluster_ping_retries

\* the test that puts the socket on the list of sockets to close
TooManyPingFailures(count) == count > cluster_ping_retries

\* The head of the loop body for the socket: the write-time gate, the ping
\* timeout, the ping injection.
schedule_sock_write ==
  /\ pc = "sched"
  /\ Active
  /\ current_time' = now
  /\ IF now < next_write_time
     THEN /\ pc' = "poll"
          /\ UNCHANGED << pingv, linkv, msgv, fate, wired, stats >>
     ELSE IF ping_start_time > 0
     THEN IF PingTimedOut(now)
          THEN /\ ping_start_time' = 0
               /\ ping_fail_count' = ping_fail_count + 1
               /\ pc' = IF TooManyPingFailures(ping_fail_count + 1)
                        THEN IF 0 < MAX_SOCK_CONTEXT_COUNT THEN "close" ELSE "poll"
                        ELSE "write"
               /\ UNCHANGED << next_ping_time, linkv, msgv, fate, wired, stats >>
          ELSE /\ pc' = "write"
               /\ UNCHANGED << pingv, linkv, msgv, fate, wired, stats >>
     ELSE IF cluster_ping_send_interval > 0 /\ now >= next_ping_time
     THEN /\ stats' = Bump(Bump(stats, "ping_total_count", 1), "push_msg_count", 1)
          /\ ping_start_time' = now
          /\ next_ping_time' = now + cluster_ping_send_interval
          /\ SendHead(FUNC_ID_CLUSTER_PING_REQUEST)
          /\ pc' = "write"
          /\ UNCHANGED ping_fail_count
     ELSE /\ pc' = "write"
          /\ UNCHANGED << pingv, linkv, msgv, fate, wired, stats >>
  /\ UNCHANGED << sock, version, queue_index, next_write_time, connect_state,
                  active_sockets, wr, clr, now, net_in, peer_reqs, connected_list,
                  session, budget, cfgv, subv, histv >>

\* schedule_sock_write after deal_write_event returned result
PcAfter(result) == IF result = OK THEN "write"
                   ELSE IF result = EAGAIN THEN "poll"
                   ELSE IF 0 < MAX_SOCK_CONTEXT_COUNT THEN "close" ELSE "poll"

WriteTimeAfter(result) == IF result = EAGAIN THEN current_time + send_wait_time
                          ELSE next_write_time

\* ------------------------------------------------------ deal_write_event
\* what writev can answer for a batch of total_bytes bytes
WritevResults(total_bytes) ==
  { [kind |-> "bytes", n |-> n] : n \in 1..total_bytes }
  \cup { [kind |-> k, n |-> 0] : k \in {"zero", EAGAIN, "EINTR", EIO} }

\* a result that reports more to send after any write
WriteResultAlwaysMore(a, write_bytes) == OK

\* if (write_bytes == total_bytes && fetch_done) result = 0; else result = EAGAIN
WriteResult(a, write_bytes) ==
  IF write_bytes = a.total_bytes /\ a.fetch_done THEN OK ELSE EAGAIN

\* The batch is assembled, written, and the written bytes are accounted to the
\* messages. With done messages the call goes on to its completion step.
deal_write_event_as(out) ==
  \E a \in { Assemble } :
  /\ pc = "write"
  /\ out \in WritevResults(a.total_bytes)
  /\ IF Len(a.vec) = 0
     THEN /\ pc' = PcAfter(EAGAIN)
          /\ next_write_time' = WriteTimeAfter(EAGAIN)
          /\ UNCHANGED << queue_index, msgv, stats, wr, wired, wire_ok, ord, fifo_ok,
                          prio_inv, peer_reqs >>
     ELSE IF out.kind # "bytes"
     THEN \E result \in { IF out.kind = "zero" THEN ECONNRESET
                          ELSE IF out.kind = "EINTR" THEN OK ELSE out.kind } :
          /\ pc' = PcAfter(result)
          /\ next_write_time' = WriteTimeAfter(result)
          /\ UNCHANGED << queue_index, msgv, stats, wr, wired, wire_ok, ord, fifo_ok,
                          prio_inv, peer_reqs >>
     ELSE \E write_bytes \in { out.n } :
          \E result \in { WriteResult(a, write_bytes) },
             acc \in { Accounted(a, write_bytes) },
             g \in { Wire(a, write_bytes) } :
          \E f \in { Fifo(g.fin, ord, fifo_ok) } :
             /\ bytes_sent' = acc.bs
             /\ blocks' = acc.bl
             /\ queue_index' = acc.queue_index
             /\ wired' = g.wired
             /\ wire_ok' = g.ok
             /\ ord' = f.ord
             /\ fifo_ok' = f.ok
             /\ prio_inv' = Inversion(a, write_bytes)
             /\ peer_reqs' = peer_reqs + Cardinality({ k \in 1..Len(g.fin) :
                                hdr[g.fin[k]].func_id = FUNC_ID_CLUSTER_PING_REQUEST })
             /\ UNCHANGED hdr
             /\ IF acc.total_done = 0
                THEN /\ pc' = PcAfter(result)
                     /\ next_write_time' = WriteTimeAfter(result)
                     /\ UNCHANGED << stats, wr >>
                ELSE /\ stats' = Bump(stats, "send_msg_count", acc.total_done)
                     /\ wr' = [result |-> result, done |-> acc.done]
                     /\ pc' = "complete"
                     /\ UNCHANGED next_write_time
  /\ UNCHANGED << sock, version, linkv, fate, pingv, connect_state, active_sockets,
                  current_time, clr, now, net_in, connected_list, session, budget, cfgv, subv,
                  close_at >>

deal_write_event == \E out \in WritevResults(Assemble.total_bytes) : deal_write_event_as(out)

DoneSet == UNION { Range(wr.done[p]) : p \in Priorities }

\* The completion step: each queue with done messages is cut after the last of
\* them, and the done messages are released.
deal_write_event_complete ==
  /\ pc = "complete"
  /\ head' = [p \in Priorities |->
                IF wr.done[p] = << >> THEN head[p]
                ELSE next[wr.done[p][Len(wr.done[p])]]]
  /\ tail' = [p \in Priorities |->
                IF wr.done[p] # << >> /\ next[wr.done[p][Len(wr.done[p])]] = NULL
                THEN NULL ELSE tail[p]]
  /\ Released(DoneSet, "sent")
  /\ pc' = PcAfter(wr.result)
  /\ next_write_time' = WriteTimeAfter(wr.result)
  /\ wr' = NoWr
  /\ UNCHANGED << sock, version, queue_index, pingv, connect_state, active_sockets,
                  stats, current_time, clr, now, net_in, peer_reqs, connected_list,
                  session, budget, cfgv, subv, histv >>

\* ---------------------------------------------------------- deal_message
\* every PING_RESPONSE is taken as the answer to a ping
ResponseAwaitedAlways(start_time) == TRUE

\* pSockContext->ping_start_time > 0: a ping is outstanding
ResponseAwaited(start_time) == start_time > 0

\* deal_read_event hands the next frame of the peer to deal_message.
deal_message ==
  /\ pc = "poll"
  /\ Active
  /\ net_in # << >>
  /\ net_in' = Tail(net_in)
  /\ IF Head(net_in) = FUNC_ID_CLUSTER_PING_REQUEST
     THEN /\ SendHead(FUNC_ID_CLUSTER_PING_RESPONSE)
          /\ stats' = Bump(stats, "push_msg_count", 1)
          /\ UNCHANGED pingv
     ELSE /\ IF ResponseAwaited(ping_start_time)
             THEN /\ stats' = Bump(Bump(stats, "ping_success_count", 1),
                                     "ping_time_used", now - ping_start_time)
                  /\ ping_start_time' = 0
             ELSE UNCHANGED << stats, ping_start_time >>
          /\ ping_fail_count' = IF ping_fail_count > 0 THEN 0 ELSE ping_fail_count
          /\ UNCHANGED << next_ping_time, linkv, msgv, fate, wired >>
  /\ UNCHANGED << sock, version, queue_index, next_write_time, connect_state,
                  active_sockets, pc, current_time, wr, clr, now, peer_reqs,
                  connected_list, session, budget, cfgv, subv, histv >>

\* deal_epoll_events: an error event, or deal_read_event returning an error
deal_epoll_events_fail ==
  /\ pc = "poll"
  /\ Active
  /\ pc' = "close"
  /\ UNCHANGED << sock, version, queue_index, linkv, msgv, next_write_time, pingv,
                  connect_state, active_sockets, stats, current_time, wr, clr, now,
                  net_in, peer_reqs, connected_list, session, budget, cfgv, subv, fate, wired,
                  histv >>

\* the worker loop goes from the poll back to schedule_sock_write
work_thread_loop ==
  /\ pc = "poll"
  /\ pc' = "sched"
  /\ UNCHANGED << sock, version, queue_index, linkv, msgv, next_write_time, pingv,
                  connect_state, active_sockets, stats, current_time, wr, clr, now,
                  net_in, peer_reqs, connected_list, session, budget, cfgv, subv, fate, wired,
                  histv >>

\* ----------------------------------------------------------- close_socket
\* close_socket up to clear_send_queue: the detach, close(sock), the removal from
\* active_sockets and from the machine's connected_list.
close_socket ==
  /\ pc = "close"
  /\ \E detached \in BOOLEAN :
       IF ~detached
       THEN /\ pc' = "sched"
            /\ UNCHANGED << sock, active_sockets, connected_list, clr, close_at, net_in,
                            peer_reqs >>
       ELSE /\ sock' = 0 - 1
            /\ active_sockets' = << >>
            /\ connected_list' = << >>
            /\ net_in' = << >>
            /\ peer_reqs' = 0
            /\ clr' = [who |-> "worker", i |-> 0, count |-> 0, drop_bytes |-> 0]
            /\ close_at' = [version |-> version,
                            drop_msg_count |-> stats.drop_msg_count,
                            drop_bytes |-> stats.drop_bytes,
                            count |-> Cardinality(Queued),
                            bytes |-> SumSeq([k \in 1..MaxMsgs |->
                                         IF k \in Queued THEN Total(k) ELSE 0])]
            /\ pc' = "purge"
  /\ UNCHANGED << version, queue_index, linkv, msgv, next_write_time, pingv,
                  connect_state, stats, current_time, wr, now, session, budget, cfgv, subv,
                  fate, wired, wire_ok, ord, fifo_ok, prio_inv >>

\* drop_bytes that count the headers alone
DropBytesOfHeaders(q) == Len(q) * MSG_HEADER_LENGTH

\* clear_send_queue: the drop_bytes of the messages of one queue
DropBytes(q) == SumSeq([k \in 1..Len(q) |-> Total(q[k])])

\* clear_send_queue: one turn of its loop, under the lock of queue clr.i
clear_send_queue_step ==
  /\ clr.who # "none"
  /\ clr.i < PRIORITY_COUNT
  /\ LET q == Queue(clr.i) IN
     /\ version' = version + 1
     /\ head' = [head EXCEPT ![clr.i] = NULL]
     /\ tail' = [tail EXCEPT ![clr.i] = NULL]
     /\ Released(Range(q), "dropped")
     /\ ord' = [ord EXCEPT ![clr.i] = << >>]
     /\ clr' = [clr EXCEPT !.i = @ + 1,
                           !.count = @ + Len(q),
                           !.drop_bytes = @ + DropBytes(q)]
  /\ UNCHANGED << sock, queue_index, next_write_time, pingv, connect_state,
                  active_sockets, stats, pc, current_time, wr, now, net_in, peer_reqs,
                  connected_list, session, budget, cfgv, subv, wire_ok, fifo_ok, prio_inv,
                  close_at >>

\* clear_send_queue after its loop: the drop counters
clear_send_queue_end ==
  /\ clr.who # "none"
  /\ clr.i = PRIORITY_COUNT
  /\ stats' = IF clr.count > 0
              THEN Bump(Bump(stats, "drop_msg_count", clr.count), "drop_bytes", clr.drop_bytes)
              ELSE stats
  /\ clr' = NoClr
  /\ IF clr.who = "worker"
     THEN pc' = "reconnect" /\ UNCHANGED connect_state
     ELSE connect_state' = "Attach" /\ UNCHANGED pc
  /\ UNCHANGED << sock, version, queue_index, linkv, msgv, next_write_time, pingv,
                  active_sockets, current_time, wr, now, net_in, peer_reqs,
                  connected_list, session, budget, cfgv, subv, fate, wired, histv >>

\* close_socket after clear_send_queue: make_connection gives the context back to
\* the controller; do_connect may open the next socket at once.
close_socket_end ==
  /\ pc = "reconnect"
  /\ pc' = "sched"
  /\ \E connecting \in BOOLEAN :
       IF connecting
       THEN sock' = 1 /\ connect_state' = "Connecting"
       ELSE sock' = 0 - 1 /\ connect_state' = "NotConnect"
  /\ UNCHANGED << version, queue_index, linkv, msgv, next_write_time, pingv,
                  active_sockets, stats, current_time, wr, clr, now, net_in, peer_reqs,
                  connected_list, session, budget, cfgv, subv, fate, wired, histv >>

\* ------------------------------------------------ the connection controller
\* do_reconnect -> do_connect: a socket is opened for the closed context
do_connect ==
  /\ connect_state = "NotConnect"
  /\ sock < 0
  /\ sock' = 1
  /\ connect_state' = "Connecting"
  /\ UNCHANGED << version, queue_index, linkv, msgv, next_write_time, pingv,
                  active_sockets, stats, pc, current_time, wr, clr, now, net_in,
                  peer_reqs, connected_list, session, budget, cfgv, subv, fate, wired, histv >>

\* connection_handler fails, or the reaper times the context out: close_connection
close_connection ==
  /\ connect_state = "Connecting"
  /\ sock' = 0 - 1
  /\ connect_state' = "NotConnect"
  /\ UNCHANGED << version, queue_index, linkv, msgv, next_write_time, pingv,
                  active_sockets, stats, pc, current_time, wr, clr, now, net_in,
                  peer_reqs, connected_list, session, budget, cfgv, subv, fate, wired, histv >>

\* nio_add_to_epoll up to clear_send_queue, after the handshake
nio_add_to_epoll ==
  /\ connect_state = "Connecting"
  /\ clr.who = "none"
  /\ version + 2 * PRIORITY_COUNT <= MaxVersion
  /\ connect_state' = "Handoff"
  /\ clr' = [who |-> "controller", i |-> 0, count |-> 0, drop_bytes |-> 0]
  /\ UNCHANGED << sock, version, queue_index, linkv, msgv, next_write_time, pingv,
                  active_sockets, stats, pc, current_time, wr, now, net_in, peer_reqs,
                  connected_list, session, budget, cfgv, subv, fate, wired, histv >>

\* nio_add_to_epoll after clear_send_queue: the context is reset and
\* add_machine_sock_context puts it in the machine's connected_list
nio_add_to_epoll_end ==
  /\ connect_state = "Attach"
  /\ queue_index' = 0
  /\ ping_start_time' = 0
  /\ ping_fail_count' = 0
  /\ next_write_time' = now + send_wait_time
  /\ next_ping_time' = now + cluster_ping_send_interval
  /\ connected_list' = Append(connected_list, 1)
  /\ connect_state' = "Attaching"
  /\ UNCHANGED << sock, version, linkv, msgv, active_sockets, stats, pc, current_time,
                  wr, clr, now, net_in, peer_reqs, session, budget, cfgv, subv, fate, wired,
                  histv >>

\* nio_add_to_epoll: the attach to the worker's poller. Attached, the context joins
\* active_sockets; else remove_machine_sock_context rolls back and
\* connection_handler closes the connection.
nio_add_to_epoll_attach ==
  /\ connect_state = "Attaching"
  /\ \E attached \in BOOLEAN :
       IF attached
       THEN /\ active_sockets' = Append(active_sockets, 1)
            /\ connect_state' = "Active"
            /\ UNCHANGED << sock, connected_list >>
       ELSE /\ connected_list' = << >>
            /\ sock' = 0 - 1
            /\ connect_state' = "Closed"
            /\ UNCHANGED active_sockets
  /\ UNCHANGED << version, queue_index, linkv, msgv, next_write_time, pingv, stats, pc,
                  current_time, wr, clr, now, net_in, peer_reqs, session, budget, cfgv, subv,
                  fate, wired, histv >>

\* ---------------------------------------------------------- environment
Tick ==
  /\ now < MaxTime
  /\ now' = now + 1
  /\ UNCHANGED << sock, version, queue_index, linkv, msgv, next_write_time, pingv,
                  connect_state, active_sockets, stats, pc, current_time, wr, clr,
                  net_in, peer_reqs, connected_list, session, budget, cfgv, subv, fate, wired,
                  histv >>

\* the peer answers a PING_REQUEST of this node
PeerPong ==
  /\ peer_reqs > 0
  /\ peer_reqs' = peer_reqs - 1
  /\ net_in' = Append(net_in, FUNC_ID_CLUSTER_PING_RESPONSE)
  /\ UNCHANGED << sock, version, queue_index, linkv, msgv, next_write_time, pingv,
                  connect_state, active_sockets, stats, pc, current_time, wr, clr, now,
                  connected_list, session, budget, cfgv, subv, fate, wired, histv >>

\* the peer sends a PING_REQUEST of its own
PeerPing ==
  /\ Active
  /\ budget # 0
  /\ Len(net_in) < MaxMsgs
  /\ budget' = Spend
  /\ net_in' = Append(net_in, FUNC_ID_CLUSTER_PING_REQUEST)
  /\ UNCHANGED << sock, version, queue_index, linkv, msgv, next_write_time, pingv,
                  connect_state, active_sockets, stats, pc, current_time, wr, clr, now,
                  peer_reqs, connected_list, session, cfgv, subv, fate, wired, histv >>

\* the producers and the peer stop sending
Quiesce ==
  /\ budget = Unbounded
  /\ budget' = 0
  /\ UNCHANGED << sock, version, queue_index, linkv, msgv, next_write_time, pingv,
                  connect_state, active_sockets, stats, pc, current_time, wr, clr, now,
                  net_in, peer_reqs, connected_list, session, cfgv, subv, fate, wired, histv >>

\* ------------------------------------------------------- specifications
NoStats == [push_msg_count |-> 0, fail_msg_count |-> 0, send_msg_count |-> 0,
            drop_msg_count |-> 0, drop_bytes |-> 0, ping_total_count |-> 0,
            ping_success_count |-> 0, ping_time_used |-> 0]

\* the parts of the state a specification leaves idle
NoHandshake == << >>
NoController == << >>
NoReader == << >>
NoArray == << >>
NoDispatch == << >>
NoPass == << >>
NoChannel == << >>
NoInsert == [m \in MsgIds |-> ""]
NoLocks == << >>
NoTable == << >>

\* A client context the controller holds, its socket closed, nothing queued.
InitNio(b, s, interval, wait, len) ==
  /\ sock = 0 - 1
  /\ version = 0
  /\ queue_index = 0
  /\ head = [p \in Priorities |-> NULL]
  /\ tail = [p \in Priorities |-> NULL]
  /\ next = [m \in MsgIds |-> NULL]
  /\ bytes_sent = [m \in MsgIds |-> 0]
  /\ hdr = [m \in MsgIds |-> NoHeader]
  /\ blocks = [m \in MsgIds |-> << >>]
  /\ next_write_time = 0
  /\ next_ping_time = 0
  /\ ping_start_time = 0
  /\ ping_fail_count = 0
  /\ connect_state = "NotConnect"
  /\ active_sockets = << >>
  /\ stats = NoStats
  /\ pc = "sched"
  /\ current_time = 0
  /\ wr = NoWr
  /\ clr = NoClr
  /\ now = 1
  /\ net_in = << >>
  /\ peer_reqs = 0
  /\ connected_list = << >>
  /\ session = 0 - 1
  /\ budget = b
  /\ stat_on = s
  /\ cluster_ping_send_interval = interval
  /\ send_wait_time = wait
  /\ max_data_len = len
  /\ fate = [m \in MsgIds |-> "free"]
  /\ wired = [m \in MsgIds |-> 0]
  /\ wire_ok = TRUE
  /\ ord = [p \in Priorities |-> << >>]
  /\ fifo_ok = TRUE
  /\ prio_inv = FALSE
  /\ close_at = NoClose

\* the same with no handshake, controller, reader or context array in the state
InitWith(b, s, interval, wait, len) ==
  /\ InitNio(b, s, interval, wait, len)
  /\ hs = NoHandshake
  /\ ctl = NoController
  /\ rd = NoReader
  /\ rr = NoArray
  /\ dm = NoDispatch
  /\ sw = NoPass
  /\ ch = NoChannel
  /\ ins = NoInsert /\ lk = NoLocks /\ mt = NoTable

\* The send path: producers, the worker and the controller; pings are switched off
\* (cluster_ping_send_interval = 0) and send_wait_time is 0.
Init == InitWith(MaxPush, TRUE, 0, 0, MaxDataLen)

Next ==
  \/ get_socket_context
  \/ Push
  \/ schedule_sock_write
  \/ deal_write_event
  \/ deal_write_event_complete
  \/ deal_message
  \/ deal_epoll_events_fail
  \/ work_thread_loop
  \/ close_socket
  \/ clear_send_queue_step
  \/ clear_send_queue_end
  \/ close_socket_end
  \/ do_connect
  \/ close_connection
  \/ nio_add_to_epoll
  \/ nio_add_to_epoll_end
  \/ nio_add_to_epoll_attach
  \/ PeerPing

Spec == Init /\ [][Next]_vars

\* The ping path: the clock runs, pings are on, the peer answers or ignores the pings
\* of this node; no producer is running and the statistics are not observed.
InitPing == InitWith(0, FALSE, PingInterval, 0, 0)

NextPing ==
  \/ Tick
  \/ PeerPong
  \/ schedule_sock_write
  \/ deal_write_event
  \/ deal_write_event_complete
  \/ deal_message
  \/ deal_epoll_events_fail
  \/ work_thread_loop
  \/ close_socket
  \/ clear_send_queue_step
  \/ clear_send_queue_end
  \/ close_socket_end
  \/ do_connect
  \/ close_connection
  \/ nio_add_to_epoll
  \/ nio_add_to_epoll_end
  \/ nio_add_to_epoll_attach

SpecPing == InitPing /\ [][NextPing]_vars

\* The ping path with the statistics of the worker observed.
InitPong == InitWith(0, TRUE, PingInterval, 0, 0)

SpecPong == InitPong /\ [][NextPing]_vars

\* The send path with producers that may go on for ever or stop: the worker thread
\* keeps running, and a writev that can take the whole batch infinitely often
\* eventually does. Pings are off, the statistics are not observed and the
\* messages are short.
InitLive == InitWith(Unbounded, FALSE, 0, 0, LiveDataLen)

NextLive ==
  \/ get_socket_context
  \/ Push
  \/ Quiesce
  \/ schedule_sock_write
  \/ deal_write_event
  \/ deal_write_event_complete
  \/ deal_epoll_events_fail
  \/ work_thread_loop
  \/ close_socket
  \/ clear_send_queue_step
  \/ clear_send_queue_end
  \/ close_socket_end
  \/ do_connect
  \/ close_connection
  \/ nio_add_to_epoll
  \/ nio_add_to_epoll_end
  \/ nio_add_to_epoll_attach

\* writev takes every byte of the batch
WriteAll == deal_write_event_as([kind |-> "bytes", n |-> Assemble.total_bytes])

\* the steps of the worker thread other than deal_write_event
WorkerElse ==
  \/ schedule_sock_write
  \/ deal_write_event_complete
  \/ deal_epoll_events_fail
  \/ work_thread_loop
  \/ close_socket
  \/ close_socket_end
  \/ (clr.who = "worker" /\ (clear_send_queue_step \/ clear_send_queue_end))

\* Weak fairness of deal_write_event and strong fairness of WriteAll, written out
\* with their enabling conditions: deal_write_event can run whenever the worker is
\* at it, WriteAll whenever the worker is at it with a message queued.
WriteFairness ==
  /\ ([]<>(pc # "write") \/ []<><<deal_write_event>>_vars)
  /\ (<>[](~(pc = "write" /\ Queued # { })) \/ []<><<WriteAll>>_vars)

\* Strong fairness of the close_socket whose detach succeeds, written out: a socket
\* that is put up for closing again and again is closed.
CloseFairness ==
  <>[](pc # "close") \/ []<><<close_socket /\ sock' < 0>>_vars

SpecLive ==
  InitLive /\ [][NextLive]_vars /\ WF_vars(WorkerElse) /\ WriteFairness /\ CloseFairness

\* ------------------------------------------------------------------ pings
\* the PING_REQUESTs of this node that are not answered yet: queued and not fully
\* written, received by the peer, or answered with the PING_RESPONSE still unread
Awaiting ==
  Cardinality({ m \in Queued : /\ hdr[m].func_id = FUNC_ID_CLUSTER_PING_REQUEST
                               /\ wired[m] < Total(m) })
  + peer_reqs
  + Cardinality({ k \in 1..Len(net_in) : net_in[k] = FUNC_ID_CLUSTER_PING_RESPONSE })

\* C9 as stated: on an active socket at most one PING_REQUEST awaits its response,
\* and ping_start_time > 0 exactly when one does.
C9_OneAwaiting ==
  Active => /\ Awaiting <= 1
            /\ (ping_start_time > 0 <=> Awaiting = 1)

\* C9, amended: on an active socket ping_start_time > 0 only while at least one
\* PING_REQUEST awaits its response, and a PING_REQUEST is sent only when
\* ping_start_time is 0, which sets it. After a ping timeout ping_start_time is 0
\* with the request still unanswered, so several requests may await a response.
C9_StartTimeMeansAwaiting ==
  /\ [](Active => (ping_start_time > 0 => Awaiting >= 1))
  /\ [][Awaiting' > Awaiting => (ping_start_time = 0 /\ ping_start_time' > 0)]_vars

\* two requests await a response after a timeout, and a third ping cycle is on
C9_Witness == Active /\ Awaiting >= 2 /\ ping_start_time > 0

C2_FifoWithinPriority == fifo_ok

\* the head of a queue is finished and its successor, accepted after it, is partly
\* written by the same writev
C2_Witness ==
  /\ pc = "complete"
  /\ \E p \in Priorities :
        /\ Len(wr.done[p]) = 1
        /\ Len(Queue(p)) >= 2
        /\ Queue(p)[1] = wr.done[p][1]
        /\ hdr[Queue(p)[1]].func_id = FUNC_ID_USER
        /\ hdr[Queue(p)[2]].func_id = FUNC_ID_USER
        /\ wired[Queue(p)[2]] > 0

PartlyWritten == { m \in Queued : wired[m] > 0 /\ wired[m] < Total(m) }

\* C3: every byte written continues the frame of the one message that is partly
\* written, or starts a new frame when there is none; at most one message is
\* partly written at any time.
C3_WholeFrames == wire_ok /\ Cardinality(PartlyWritten) <= 1

\* a low priority message is partly written while a higher priority message waits
C3_Witness ==
  \E m \in PartlyWritten : \E y \in Queued :
     /\ PrioOf(y) < PrioOf(m)
     /\ wired[y] = 0
     /\ pc = "write"

\* C4 as stated: no write puts bytes of a message that was not started ahead of a
\* queued message of a higher priority.
C4_HigherPriorityFirst == ~prio_inv

\* C5: a push with a version that is not the socket's, or on a closed socket, links
\* nothing, leaves head and tail of every queue as they are, adds one to
\* fail_msg_count and nothing to push_msg_count.
C5_StalePushFails ==
  [][(budget' # budget /\ net_in' = net_in /\ (version # session \/ sock < 0))
       => /\ head' = head
          /\ tail' = tail
          /\ next' = next
          /\ Queued' = Queued
          /\ stats'.fail_msg_count = stats.fail_msg_count + 1
          /\ stats'.push_msg_count = stats.push_msg_count]_vars

\* a push has failed while close_socket is purging the queues
C5_Witness ==
  /\ clr.who = "worker"
  /\ clr.i > 0
  /\ clr.i < PRIORITY_COUNT
  /\ stats.fail_msg_count > 0
  /\ \E m \in MsgIds : fate[m] = "failed"

Purged ==
  /\ Queued = { }
  /\ \A p \in Priorities : head[p] = NULL /\ tail[p] = NULL
  /\ stats.drop_msg_count = close_at.drop_msg_count + close_at.count
  /\ stats.drop_bytes = close_at.drop_bytes + close_at.bytes

\* C6 as stated: after the close of an active connection of version V the version
\* is V + 1.
C6_VersionPlusOne ==
  pc = "reconnect" => (version = close_at.version + 1 /\ Purged)

\* C6, amended: after the close of an active connection of version V the version is
\* V + PRIORITY_COUNT (one increment for each priority queue purged), the queues
\* are empty and the drop counters have advanced by the number and the bytes of the
\* messages that were queued.
C6_VersionPlusQueues ==
  pc = "reconnect" => (version = close_at.version + PRIORITY_COUNT /\ Purged)

\* a close that purged messages of two queues
C6_Witness ==
  /\ pc = "reconnect"
  /\ close_at.count >= 2
  /\ stats.drop_bytes > 2 * MSG_HEADER_LENGTH

BytesSentBounded ==
  /\ [](\A m \in Queued : bytes_sent[m] <= Total(m) /\ bytes_sent[m] <= wired[m])
  /\ [][\A m \in MsgIds : (fate[m] = "queued" /\ fate'[m] = "queued")
                             => bytes_sent'[m] >= bytes_sent[m]]_vars

C8_HeadTail ==
  \A p \in Priorities :
     /\ head[p] = NULL <=> tail[p] = NULL
     /\ tail[p] # NULL => /\ next[tail[p]] = NULL
                          /\ Queue(p) # << >>
                          /\ Queue(p)[Len(Queue(p))] = tail[p]
     /\ Cardinality(Range(Queue(p))) = Len(Queue(p))

\* a PING_RESPONSE was put behind a partly sent head and became the tail
C8_Witness ==
  \E p \in Priorities :
     /\ Len(Queue(p)) = 2
     /\ bytes_sent[head[p]] > 0
     /\ hdr[tail[p]].func_id = FUNC_ID_CLUSTER_PING_RESPONSE

\* ------------------------------------------------------- message outcomes
\* what may become of a message record in one step: an accepted message leaves its
\* queue as sent only from the completion step with all its bytes written, or as
\* dropped only from clear_send_queue, which counts it; its bytes reach the socket
\* once and in order
OneOutcome ==
  /\ [](wire_ok /\ \A m \in MsgIds : wired[m] <= Total(m))
  /\ [][\A m \in MsgIds :
          /\ (fate[m] = "queued" /\ fate'[m] = "sent")
               => (pc = "complete" /\ m \in DoneSet /\ wired[m] = Total(m))
          /\ (fate[m] = "queued" /\ fate'[m] = "dropped")
               => (clr.who # "none" /\ clr'.count > clr.count /\ m \in Range(Queue(clr.i)))
          /\ (fate[m] = "queued" /\ fate'[m] # "queued")
               => fate'[m] \in {"sent", "dropped"}
          /\ (fate[m] # "queued" /\ fate'[m] # fate[m])
               => fate'[m] \in {"queued", "failed"}]_vars

MajorBits == 2                \* scaled width of HelloMessage.major
MaxMinor == 1                 \* largest minor a node announces
HelloMessageSize == 4         \* scaled sizeof(HelloMessage)

EINVAL == "EINVAL"
NEVER_RETURNS == "never returns"
FUNC_ID_CLUSTER_HELLO_REQUEST == "HELLO_REQUEST"
FUNC_ID_CLUSTER_HELLO_RESPONSE == "HELLO_RESPONSE"
CONNECT_TYPE_CLIENT == "client"
CONNECT_TYPE_SERVER == "server"

MajorModulus == 2 ^ MajorBits
Majors == 0..(MajorModulus - 1)

\* the version constants a build can have
Builds ==
  { [major |-> a, minor |-> b, min_major |-> c, min_minor |-> d] :
      a \in Majors, b \in 0..MaxMinor, c \in Majors, d \in 0..MaxMinor }

NodeBuilds == { n \in Builds : n.min_major <= n.major /\ n.min_minor <= n.minor }

\* fill_send_buffer: the hello of the build own, sent as func_id
fill_send_buffer(own, func_id) ==
  [func_id |-> func_id, data_len |-> HelloMessageSize,
   major |-> own.major, minor |-> own.minor,
   min_major |-> own.min_major, min_minor |-> own.min_minor]

\* a test against the upper end of the range only
InOwnRangeBelowMajor(own, major) == major <= own.major

\* (major >= MIN_CLUSTER_MAJOR_VERSION) && (major <= CLUSTER_MAJOR_VERSION)
InOwnRange(own, major) == major >= own.min_major /\ major <= own.major

\* for (major = hello.major; major >= hello.min_major; --major): proto_major when
\* the loop is left; left is FALSE when the condition held MajorModulus times in a
\* row, after which major has its first value again
RECURSIVE HelloLoop(_, _, _, _, _)
HelloLoop(own, hello, major, proto_major, fuel) ==
  IF ~(major >= hello.min_major) THEN [left |-> TRUE, proto_major |-> proto_major]
  ELSE IF fuel = 0 THEN [left |-> FALSE, proto_major |-> proto_major]
  ELSE HelloLoop(own, hello, (major - 1) % MajorModulus,
                 IF InOwnRange(own, major) THEN major ELSE proto_major, fuel - 1)

NoEval == [result |-> "", proto_major |-> 0 - 1, proto_minor |-> 0 - 1,
           msg_proto_major |-> 0 - 1, msg_proto_minor |-> 0 - 1]

\* deal_hello_message: result, the locals proto_major and proto_minor at the end,
\* and machine->msg_proto_major / msg_proto_minor
deal_hello_message(connect_type, own, data) ==
  LET expect_func_id == IF connect_type = CONNECT_TYPE_CLIENT
                        THEN FUNC_ID_CLUSTER_HELLO_RESPONSE
                        ELSE FUNC_ID_CLUSTER_HELLO_REQUEST
      loop == HelloLoop(own, data, data.major, 0 - 1, MajorModulus)
      proto_major == loop.proto_major
      proto_minor == IF proto_major = data.major THEN data.minor ELSE 0
  IN IF data.data_len # HelloMessageSize THEN [NoEval EXCEPT !.result = EINVAL]
     ELSE IF data.func_id # expect_func_id THEN [NoEval EXCEPT !.result = EINVAL]
     ELSE IF ~loop.left THEN [NoEval EXCEPT !.result = NEVER_RETURNS]
     ELSE IF proto_major > 0
     THEN [result |-> OK, proto_major |-> proto_major, proto_minor |-> proto_minor,
           msg_proto_major |-> data.major, msg_proto_minor |-> data.minor]
     ELSE [NoEval EXCEPT !.result = EINVAL, !.proto_major = proto_major]

NoMsg == << >>

\* connection_handler, client in STATE_CONNECTED: the request is filled and sent
hello_request ==
  /\ hs.state.client = "Connected"
  /\ hs' = [hs EXCEPT !.state.client = "RecvData",
                      !.request = fill_send_buffer(hs.build.client, FUNC_ID_CLUSTER_HELLO_REQUEST)]
  /\ UNCHANGED << niov, ctl, rd, rr, dm, sw, ch, ins, lk, mt >>

\* connection_handler, server in STATE_RECV_DATA with the whole request received
hello_request_received ==
  /\ hs.state.server = "RecvData"
  /\ hs.request # NoMsg
  /\ LET e == deal_hello_message(CONNECT_TYPE_SERVER, hs.build.server, hs.request)
     IN hs' = [hs EXCEPT !.ev.server = e,
                         !.request = NoMsg,
                         !.response = IF e.result = OK
                                      THEN fill_send_buffer(hs.build.server,
                                                            FUNC_ID_CLUSTER_HELLO_RESPONSE)
                                      ELSE NoMsg,
                         !.state.server = IF e.result = OK THEN "HandedOff"
                                          ELSE IF e.result = NEVER_RETURNS THEN "Hung"
                                          ELSE "Closed"]
  /\ UNCHANGED << niov, ctl, rd, rr, dm, sw, ch, ins, lk, mt >>

\* connection_handler, client in STATE_RECV_DATA with the whole response received
hello_response_received ==
  /\ hs.state.client = "RecvData"
  /\ hs.response # NoMsg
  /\ LET e == deal_hello_message(CONNECT_TYPE_CLIENT, hs.build.client, hs.response)
     IN hs' = [hs EXCEPT !.ev.client = e,
                         !.response = NoMsg,
                         !.state.client = IF e.result = OK THEN "HandedOff"
                                          ELSE IF e.result = NEVER_RETURNS THEN "Hung"
                                          ELSE "Closed"]
  /\ UNCHANGED << niov, ctl, rd, rr, dm, sw, ch, ins, lk, mt >>

\* connection_handler, client in STATE_RECV_DATA: do_recv_data reads 0 bytes after
\* the server closed its socket
hello_reset ==
  /\ hs.state.client = "RecvData"
  /\ hs.state.server = "Closed"
  /\ hs' = [hs EXCEPT !.ev.client = [NoEval EXCEPT !.result = ECONNRESET],
                      !.state.client = "Closed"]
  /\ UNCHANGED << niov, ctl, rd, rr, dm, sw, ch, ins, lk, mt >>

\* A client that has connected and a server that has accepted; the builds of the
\* two nodes are any two.
InitHello ==
  /\ InitNio(0, FALSE, 0, 0, 0)
  /\ ctl = NoController
  /\ rd = NoReader
  /\ rr = NoArray
  /\ dm = NoDispatch
  /\ sw = NoPass
  /\ ch = NoChannel
  /\ ins = NoInsert /\ lk = NoLocks /\ mt = NoTable
  /\ \E c \in NodeBuilds, v \in NodeBuilds :
        hs = [build |-> [client |-> c, server |-> v],
              state |-> [client |-> "Connected", server |-> "RecvData"],
              request |-> NoMsg, response |-> NoMsg,
              ev |-> [client |-> NoEval, server |-> NoEval]]

NextHello ==
  \/ hello_request
  \/ hello_request_received
  \/ hello_response_received
  \/ hello_reset

SpecHello == InitHello /\ [][NextHello]_vars


\* the majors from the hello's major down to its min_major that lie in the range
\* of the build own
CommonMajors(own, hello) ==
  { m \in Majors : m <= hello.major /\ m >= hello.min_major
                   /\ m >= own.min_major /\ m <= own.major }

HighestOf(S) == CHOOSE m \in S : \A k \in S : k <= m

\* what a node that has evaluated a hello holds if it negotiated as described: the
\* highest common major, with the peer's minor when that is the peer's major
NegotiatedHighest(own, hello, e) ==
  IF CommonMajors(own, hello) = { }
  THEN e.result = EINVAL
  ELSE /\ e.result = OK
       /\ e.proto_major = HighestOf(CommonMajors(own, hello))
       /\ e.proto_minor = IF e.proto_major = hello.major THEN hello.minor ELSE 0

Evaluated(side) == hs.ev[side].result \in { OK, EINVAL, NEVER_RETURNS }

\* C11: deal_hello_message negotiates the highest major, among those from the
\* peer's major down to the peer's min_major, that lies within
\* [MIN_CLUSTER_MAJOR_VERSION, CLUSTER_MAJOR_VERSION], and rejects the hello exactly
\* when there is none; the negotiated minor is the peer's minor when the negotiated
\* major is the peer's major, and 0 otherwise.
C11_HighestCommonMajor ==
  /\ Evaluated(CONNECT_TYPE_SERVER)
       => NegotiatedHighest(hs.build.server, hs.build.client, hs.ev.server)
  /\ Evaluated(CONNECT_TYPE_CLIENT)
       => NegotiatedHighest(hs.build.client, hs.build.server, hs.ev.client)

\* the two evaluations of one handshake, whether or not they have been made
EvalOfClient ==
  deal_hello_message(CONNECT_TYPE_CLIENT, hs.build.client,
                     fill_send_buffer(hs.build.server, FUNC_ID_CLUSTER_HELLO_RESPONSE))
EvalOfServer ==
  deal_hello_message(CONNECT_TYPE_SERVER, hs.build.server,
                     fill_send_buffer(hs.build.client, FUNC_ID_CLUSTER_HELLO_REQUEST))

PositiveMajors == hs.build.client.min_major > 0 /\ hs.build.server.min_major > 0

C35_HelloTerminates ==
  /\ hs.ev.client.result # NEVER_RETURNS
  /\ hs.ev.server.result # NEVER_RETURNS
  /\ hs.state.client # "Hung"
  /\ hs.state.server # "Hung"


\* ==================================================================== controller
\* connection.cc: the connect thread and the client contexts of one peer machine.
\* connections[1] is the listening socket; the clock counts in units of 100 ms.
NumContexts == 2              \* client contexts
NumMachines == 2              \* peer machines
NumThreads == 2               \* num_of_cluster_threads, the workers
MaxClock == 6                 \* last clock value (SpecBackoff)
ShortClock == 1               \* last clock value (SpecConnect)
MaxAttempts == 4              \* largest connect_count reached
ReconnectInitial == 1         \* scaled 100 ms, the first reconnect_interval
DeadMaxInterval == 2          \* scaled 1000 ms
LiveMaxInterval == 3          \* scaled 30000 ms
RecvTimeout == 2              \* scaled 1000 ms of close_timeout_connections
ConnectTimeout == 2           \* scaled cluster_connect_timeout * 1000

STATE_NOT_CONNECT == "NOT_CONNECT"
STATE_CONNECTING == "CONNECTING"
STATE_CONNECTED == "CONNECTED"
STATE_SEND_DATA == "SEND_DATA"
STATE_RECV_DATA == "RECV_DATA"

Contexts == 1..NumContexts
ListenContext == NumContexts + 1      \* socket_contexts_pool + 0

\* the build of this node and the hellos its peers answer with
ThisBuild == [major |-> MajorModulus - 1, minor |-> 0, min_major |-> MajorModulus - 1,
              min_minor |-> 0]
PeerHellos ==
  { fill_send_buffer([major |-> m, minor |-> 0, min_major |-> m, min_minor |-> 0],
                     FUNC_ID_CLUSTER_HELLO_RESPONSE) : m \in (Majors \ { 0 }) }
AcceptedHello == fill_send_buffer(ThisBuild, FUNC_ID_CLUSTER_HELLO_RESPONSE)

\* what the system calls of one connection_handler call do: the socket call
\* succeeds ("ok"), would block, or fails; an ev_poll call fails; or
\* machine_add_connection fails
HandlerOutcomes ==
  { [kind |-> "ok", hello |-> h] : h \in PeerHellos }
    \cup { [kind |-> k, hello |-> AcceptedHello] :
             k \in { "EAGAIN", "io_fail", "poll_fail", "add_fail" } }

\* what the system calls of one do_connect call do
ConnectOutcomes ==
  { [connect |-> k, handler |-> [kind |-> "ok", hello |-> AcceptedHello]] :
      k \in { "socket_fail", "setsockopt_fail", "EINPROGRESS", "connect_fail" } }
    \cup { [connect |-> "connected", handler |-> [kind |-> k, hello |-> AcceptedHello]] :
             k \in { "ok", "poll_fail" } }

Least(a, b) == IF a < b THEN a ELSE b

\* the client contexts of the machine
Clients(st) == DOMAIN st.hist

RemoveAt(q, i) == [k \in 1..(Len(q) - 1) |-> IF k < i THEN q[k] ELSE q[k + 1]]

\* the index of the connect context bound to pSockContext, 0 when there is none
IndexOf(st, pSockContext) ==
  IF \E i \in 1..Len(st.connections) : st.connections[i].pSockContext = pSockContext
  THEN CHOOSE i \in 1..Len(st.connections) :
         /\ st.connections[i].pSockContext = pSockContext
         /\ \A k \in 1..(i - 1) : st.connections[k].pSockContext # pSockContext
  ELSE 0

\* remove_connection: the entry leaves the list, the later ones move up
remove_connection(st, pSockContext) ==
  IF IndexOf(st, pSockContext) = 0 THEN st
  ELSE [st EXCEPT !.connections = RemoveAt(@, IndexOf(st, pSockContext))]

\* close_connection
ctl_close_connection(st, pSockContext) == [st EXCEPT !.sock[pSockContext] = 0 - 1]

\* free_connect_sock_context: pushed on the machine's connect_free_list
free_connect_sock_context(st, pSockContext) ==
  [st EXCEPT !.connect_free_list[st.machine[pSockContext]] = << pSockContext >> \o @]

\* init_socket_contexts: the worker of a context, fixed for good
thread_context(pSockContext) == ((pSockContext - 1) % NumThreads) + 1

\* add_to_active_sockets: appended to the active_sockets of the context's worker
add_to_active_sockets(active, pSockContext) ==
  [active EXCEPT ![thread_context(pSockContext)] = Append(@, pSockContext)]

\* a removal that leaves active_sockets as it is
remove_from_active_sockets_none(active, pSockContext) == active

\* remove_from_active_sockets: the first entry that is the context leaves the
\* active_sockets of its worker
remove_from_active_sockets(active, pSockContext) ==
  LET q == active[thread_context(pSockContext)]
      found == { k \in 1..Len(q) : q[k] = pSockContext }
  IN IF found = { } THEN active
     ELSE [active EXCEPT ![thread_context(pSockContext)] =
             RemoveAt(q, CHOOSE k \in found : \A j \in found : k <= j)]

\* the contexts in the active_sockets of worker w
ActiveOf(st, w) == { st.active[w][k] : k \in 1..Len(st.active[w]) }

\* connection_handler from "if (events != 0)" on, when the call is to end the
\* handshake: detach, remove_connection, then machine_add_connection or
\* close_connection; a client context is not freed
HandlerEnd(st, i, result) ==
  LET c == st.connections[i].pSockContext
      removed == remove_connection(st, c)
  IN IF result = OK
     THEN [removed EXCEPT !.active = add_to_active_sockets(@, c)]
     ELSE [ctl_close_connection(removed, c) EXCEPT
             !.hist[c].rejected = (result = EINVAL /\ st.connections[i].need_reconnect)]

\* connection_handler for the client context of connections[i]
connection_handler(st, i, o) ==
  LET e == st.connections[i]
      wait(state) == IF o.kind = "poll_fail" THEN HandlerEnd(st, i, EIO)
                     ELSE [st EXCEPT !.connections[i].state = state,
                                     !.connections[i].attached = TRUE]
      hello == deal_hello_message(CONNECT_TYPE_CLIENT, ThisBuild, o.hello).result
  IN CASE e.state \in { STATE_CONNECTING, STATE_CONNECTED } ->
            IF e.state = STATE_CONNECTING /\ o.kind = "io_fail"
            THEN HandlerEnd(st, i, EIO)
            ELSE wait(STATE_SEND_DATA)
       [] e.state = STATE_SEND_DATA ->
            IF o.kind = "EAGAIN" THEN wait(STATE_SEND_DATA)
            ELSE IF o.kind = "io_fail" THEN HandlerEnd(st, i, EIO)
            ELSE IF o.kind = "poll_fail" THEN HandlerEnd(st, i, EIO)
            ELSE [st EXCEPT !.connections[i].state = STATE_RECV_DATA,
                            !.connections[i].server_start_time = st.clock]
       [] e.state = STATE_RECV_DATA ->
            IF o.kind = "EAGAIN" THEN wait(STATE_RECV_DATA)
            ELSE IF o.kind = "io_fail" THEN HandlerEnd(st, i, ECONNRESET)
            ELSE IF hello # OK THEN HandlerEnd(st, i, hello)
            ELSE IF o.kind \in { "poll_fail", "add_fail" } THEN HandlerEnd(st, i, EIO)
            ELSE HandlerEnd(st, i, OK)
       [] OTHER -> HandlerEnd(st, i, EINVAL)

\* do_connect for connections[i]
ctl_do_connect(st, i, o) ==
  LET c == st.connections[i].pSockContext
      begun == [st EXCEPT !.connections[i].connect_count = @ + 1,
                          !.connections[i].state = STATE_CONNECTING,
                          !.hist[c].attempt_time = st.clock,
                          !.hist[c].reached_connect =
                              (o.connect \notin { "socket_fail", "setsockopt_fail" }),
                          !.hist[c].rejected = FALSE]
      started == [begun EXCEPT !.connections[i].connect_start_time = st.clock]
  IN CASE o.connect = "socket_fail" -> begun
       [] o.connect = "setsockopt_fail" -> [begun EXCEPT !.sock[c] = 0]
       [] o.connect = "connect_fail" -> started
       [] o.connect = "EINPROGRESS" ->
            [started EXCEPT !.sock[c] = 0,
                            !.connections[i].attached = TRUE,
                            !.connections[i].need_check_timeout = TRUE]
       [] o.connect = "connected" ->
            connection_handler([started EXCEPT !.sock[c] = 0,
                                               !.connections[i].state = STATE_CONNECTED,
                                               !.connections[i].need_check_timeout = TRUE],
                               i, o.handler)


NewConnectContext(pSockContext) ==
  [pSockContext |-> pSockContext, is_accept |-> FALSE, connect_start_time |-> 0,
   server_start_time |-> 0, reconnect_interval |-> ReconnectInitial, connect_count |-> 0,
   state |-> STATE_NOT_CONNECT, need_reconnect |-> TRUE, need_check_timeout |-> FALSE,
   attached |-> FALSE]

\* make_connection: a connect context is put at the end of the list and the first
\* connect is made
ctl_make_connection(st, pSockContext, o) ==
  IF IndexOf(st, pSockContext) # 0 THEN st
  ELSE ctl_do_connect([st EXCEPT !.connections = Append(@, NewConnectContext(pSockContext))],
                      Len(st.connections) + 1, o)

\* reconnect_interval *= 2, limited by max_reconnect_interval
NextInterval(interval, dead) ==
  LET max_reconnect_interval == IF dead THEN DeadMaxInterval ELSE LiveMaxInterval
  IN IF interval * 2 > max_reconnect_interval THEN max_reconnect_interval ELSE interval * 2

\* the loop of do_reconnect from connections[i] on; f gives what the system calls
\* of do_connect do for each context
RECURSIVE Reconnect(_, _, _)
Reconnect(st, i, f) ==
  IF i > Len(st.connections) THEN st
  ELSE LET e == st.connections[i]
           c == e.pSockContext
       IN IF c = NULL THEN Reconnect(st, i + 1, f)
          ELSE IF st.sock[c] >= 0 THEN Reconnect(st, i + 1, f)
          ELSE IF e.need_reconnect
          THEN IF e.connect_count > 0
               THEN IF st.clock - e.connect_start_time < e.reconnect_interval
                    THEN Reconnect(st, i + 1, f)
                    ELSE Reconnect(
                           ctl_do_connect(
                             [st EXCEPT
                                !.connections[i].reconnect_interval =
                                    NextInterval(e.reconnect_interval,
                                                 st.dead[st.machine[c]]),
                                !.connections[i].need_check_timeout = FALSE,
                                !.hist[c].retry =
                                    [k |-> e.connect_count,
                                     waited |-> st.clock - st.hist[c].attempt_time,
                                     required |-> e.reconnect_interval,
                                     dead |-> st.dead[st.machine[c]],
                                     next |-> NextInterval(e.reconnect_interval,
                                                           st.dead[st.machine[c]]),
                                     reached_connect |-> st.hist[c].reached_connect]],
                             i, f[c]),
                           i + 1, f)
               ELSE [st EXCEPT !.hung = TRUE]
          ELSE Reconnect(free_connect_sock_context(remove_connection(st, c), c), i, f)

\* an entry that do_reconnect would connect again now
Due(st, i) ==
  LET e == st.connections[i]
  IN /\ e.pSockContext # NULL
     /\ st.sock[e.pSockContext] < 0
     /\ e.need_reconnect
     /\ e.connect_count > 0
     /\ st.clock - e.connect_start_time >= e.reconnect_interval

\* connect_worker_entrance: do_reconnect, when the list holds more than the
\* listening socket
do_reconnect ==
  /\ ~ctl.hung
  /\ Len(ctl.connections) > 1
  /\ \A i \in 1..Len(ctl.connections) :
        Due(ctl, i) => ctl.connections[i].connect_count < MaxAttempts
  /\ \E f \in [Clients(ctl) -> ConnectOutcomes] :
        /\ \A c \in Clients(ctl) :
              (IndexOf(ctl, c) = 0 \/ ~Due(ctl, IndexOf(ctl, c)))
                 => f[c] = CHOOSE o \in ConnectOutcomes : o.connect = "EINPROGRESS"
        /\ ctl' = Reconnect(ctl, 1, f)
  /\ UNCHANGED << niov, hs, rd, rr, dm, sw, ch, ins, lk, mt >>

\* the loop of close_timeout_connections: the contexts whose handshake timed out
TimedOut(st) ==
  { i \in 1..Len(st.connections) :
      LET e == st.connections[i]
      IN /\ e.need_check_timeout
         /\ st.sock[e.pSockContext] >= 0
         /\ IF e.state = STATE_RECV_DATA
            THEN st.clock - e.server_start_time >= RecvTimeout
            ELSE /\ e.state = STATE_CONNECTING
                 /\ st.clock - e.connect_start_time >= ConnectTimeout }

\* release_connection of a client context: close_connection and nothing else
release_connection(st, pSockContext) == ctl_close_connection(st, pSockContext)

\* connect_worker_entrance, poll timed out: close_timeout_connections
close_timeout_connections ==
  /\ ~ctl.hung
  /\ Len(ctl.connections) > 1
  /\ TimedOut(ctl) # { }
  /\ ctl' = [ctl EXCEPT
               !.sock = [c \in DOMAIN ctl.sock |->
                           IF \E i \in TimedOut(ctl) : ctl.connections[i].pSockContext = c
                           THEN 0 - 1 ELSE ctl.sock[c]],
               !.connections = [i \in DOMAIN ctl.connections |->
                                  IF i \in TimedOut(ctl)
                                  THEN [ctl.connections[i] EXCEPT !.attached = FALSE]
                                  ELSE ctl.connections[i]]]
  /\ UNCHANGED << niov, hs, rd, rr, dm, sw, ch, ins, lk, mt >>

\* the client connections whose socket is attached to the connect thread's poll
Polled(st) ==
  { i \in 1..Len(st.connections) :
      /\ ~st.connections[i].is_accept
      /\ st.connections[i].attached
      /\ st.sock[st.connections[i].pSockContext] >= 0 }

\* deal_connect_events, EVENTIO_ERROR on one socket
deal_connect_events_error ==
  /\ ~ctl.hung
  /\ \E i \in Polled(ctl) :
        ctl' = [release_connection(ctl, ctl.connections[i].pSockContext)
                  EXCEPT !.connections[i].attached = FALSE]
  /\ UNCHANGED << niov, hs, rd, rr, dm, sw, ch, ins, lk, mt >>

\* deal_connect_events, EVENTIO_READ or EVENTIO_WRITE on one socket
deal_connect_events ==
  /\ ~ctl.hung
  /\ \E i \in Polled(ctl), o \in HandlerOutcomes :
        ctl' = connection_handler(ctl, i, o)
  /\ UNCHANGED << niov, hs, rd, rr, dm, sw, ch, ins, lk, mt >>

\* machine_make_connections: every context of the machine's connect_free_list is
\* taken and connected
RECURSIVE MakeConnections(_, _, _)
MakeConnections(st, m, f) ==
  IF st.connect_free_list[m] = << >> THEN st
  ELSE LET pSockContext == Head(st.connect_free_list[m])
       IN MakeConnections(
            ctl_make_connection([st EXCEPT !.connect_free_list[m] = Tail(@)],
                                pSockContext, f[pSockContext]),
            m, f)

machine_make_connections ==
  /\ ~ctl.hung
  /\ \E m \in DOMAIN ctl.dead, f \in [Clients(ctl) -> ConnectOutcomes] :
        /\ ctl.connect_free_list[m] # << >>
        /\ \A c \in Clients(ctl) :
              (\A k \in 1..Len(ctl.connect_free_list[m]) : ctl.connect_free_list[m][k] # c)
                 => f[c] = CHOOSE o \in ConnectOutcomes : o.connect = "EINPROGRESS"
        /\ ctl' = MakeConnections(ctl, m, f)
  /\ UNCHANGED << niov, hs, rd, rr, dm, sw, ch, ins, lk, mt >>

\* machine_stop_reconnect: the connect contexts of the machine give up
StopReconnect(st, m) ==
  [st EXCEPT
     !.connections =
        [i \in DOMAIN st.connections |->
           IF st.machine[st.connections[i].pSockContext] = m
           THEN [st.connections[i] EXCEPT !.need_reconnect = FALSE]
           ELSE st.connections[i]]]

machine_stop_reconnect ==
  /\ \E m \in DOMAIN ctl.dead :
        /\ \E i \in 1..Len(ctl.connections) :
              /\ ctl.machine[ctl.connections[i].pSockContext] = m
              /\ ctl.connections[i].need_reconnect
        /\ ctl' = StopReconnect(ctl, m)
  /\ UNCHANGED << niov, hs, rd, rr, dm, sw, ch, ins, lk, mt >>

\* nio.cc close_socket of an active client context: closed, taken from the active
\* sockets and given to make_connection
ctl_close_socket ==
  /\ \E w \in DOMAIN ctl.active :
        \E c \in ActiveOf(ctl, w), o \in ConnectOutcomes :
           ctl' = ctl_make_connection(
                    [ctl EXCEPT !.sock[c] = 0 - 1,
                                !.active = remove_from_active_sockets(@, c),
                                !.closed_once = TRUE],
                    c, o)
  /\ UNCHANGED << niov, hs, rd, rr, dm, sw, ch, ins, lk, mt >>

\* the peer machine is found dead or alive again
machine_dead ==
  /\ ctl.may_die
  /\ \E m \in DOMAIN ctl.dead :
        ctl' = [ctl EXCEPT !.dead[m] = ~@, !.ever_dead[m] = TRUE]
  /\ UNCHANGED << niov, hs, rd, rr, dm, sw, ch, ins, lk, mt >>

\* time passes
ctl_tick ==
  /\ ctl.clock < ctl.last_clock
  /\ ctl' = [ctl EXCEPT !.clock = @ + 1]
  /\ UNCHANGED << niov, hs, rd, rr, dm, sw, ch, ins, lk, mt >>

NoRetry == [k |-> 0, waited |-> 0, required |-> 0, dead |-> FALSE, next |-> 0,
            reached_connect |-> TRUE]

\* the machines of the client contexts; the listening socket has none
Machines(machine) == { machine[c] : c \in DOMAIN machine } \ { NULL }

\* the contexts of S as a freelist: each pushed at the head, in the order of the pool
RECURSIVE InOrder(_)
InOrder(S) ==
  IF S = { } THEN << >>
  ELSE LET c == CHOOSE x \in S : \A y \in S : x >= y
       IN << c >> \o InOrder(S \ { c })

\* connection_manager_init has run: the listening socket is in the list, the
\* client contexts of the machine are on its connect_free_list
connection_manager_init(n, machine, last_clock, may_die) ==
  [last_clock |-> last_clock, may_die |-> may_die,
    connections |-> << [NewConnectContext(ListenContext) EXCEPT
                          !.is_accept = TRUE, !.need_reconnect = FALSE,
                          !.attached = TRUE] >>,
    sock |-> [c \in (1..n) \cup { ListenContext } |->
                IF c = ListenContext THEN 0 ELSE 0 - 1],
    machine |-> machine,
    connect_free_list |->
       [m \in Machines(machine) |-> InOrder({ c \in 1..n : machine[c] = m })],
    active |-> [w \in 1..NumThreads |-> << >>],
    dead |-> [m \in Machines(machine) |-> FALSE],
    ever_dead |-> [m \in Machines(machine) |-> FALSE],
    hung |-> FALSE,
    closed_once |-> FALSE,
    clock |-> 0,
    hist |-> [c \in 1..n |->
                [attempt_time |-> 0, reached_connect |-> FALSE,
                 rejected |-> FALSE, retry |-> NoRetry]]]

\* only the controller runs
ControllerOnly ==
  /\ InitNio(0, FALSE, 0, 0, 0)
  /\ hs = NoHandshake
  /\ rd = NoReader
  /\ rr = NoArray
  /\ dm = NoDispatch
  /\ sw = NoPass
  /\ ch = NoChannel
  /\ ins = NoInsert /\ lk = NoLocks /\ mt = NoTable

InitController(n, machine, last_clock, may_die) ==
  /\ ControllerOnly
  /\ ctl = connection_manager_init(n, machine, last_clock, may_die)

\* Two contexts, of one machine or of two, that stay alive, for a short time.
InitConnect ==
  \E of \in [Contexts -> 1..NumMachines] :
     /\ of[1] = 1
     /\ InitController(NumContexts,
                       [c \in Contexts \cup { ListenContext } |->
                          IF c = ListenContext THEN NULL ELSE of[c]],
                       ShortClock, FALSE)

NextConnect ==
  \/ machine_make_connections
  \/ do_reconnect
  \/ deal_connect_events_error
  \/ deal_connect_events
  \/ machine_stop_reconnect
  \/ ctl_close_socket
  \/ ctl_tick

SpecConnect == InitConnect /\ [][NextConnect]_vars

\* One context of a machine that is found dead and alive again, for a longer time.
InitBackoff ==
  InitController(1, [c \in { 1, ListenContext } |-> IF c = 1 THEN 1 ELSE NULL],
                 MaxClock, TRUE)

NextBackoff ==
  \/ machine_make_connections
  \/ do_reconnect
  \/ close_timeout_connections
  \/ deal_connect_events_error
  \/ deal_connect_events
  \/ machine_stop_reconnect
  \/ ctl_close_socket
  \/ machine_dead
  \/ ctl_tick

SpecBackoff == InitBackoff /\ [][NextBackoff]_vars


\* The callers of machine_stop_reconnect and machine_make_connections are
\* followed: stopped[m] holds from the return of machine_stop_reconnect(m) to the
\* next call of machine_make_connections(m).
InitStop ==
  /\ ControllerOnly
  /\ ctl = connection_manager_init(NumContexts,
                                   [c \in Contexts \cup { ListenContext } |->
                                      IF c = ListenContext THEN NULL ELSE 1],
                                   ShortClock, FALSE)
             @@ [stopped |-> [m \in { 1 } |-> FALSE]]

\* machine_make_connections(m)
stop_machine_make_connections ==
  /\ \E m \in DOMAIN ctl.dead, f \in [Clients(ctl) -> ConnectOutcomes] :
        /\ \A c \in Clients(ctl) :
              (\A k \in 1..Len(ctl.connect_free_list[m]) : ctl.connect_free_list[m][k] # c)
                 => f[c] = CHOOSE o \in ConnectOutcomes : o.connect = "EINPROGRESS"
        /\ ctl' = [MakeConnections(ctl, m, f) EXCEPT !.stopped[m] = FALSE]
  /\ UNCHANGED << niov, hs, rd, rr, dm, sw, ch, ins, lk, mt >>

\* machine_stop_reconnect(m), with or without a connect context of m in the list
stop_machine_stop_reconnect ==
  /\ \E m \in DOMAIN ctl.dead :
        ctl' = [StopReconnect(ctl, m) EXCEPT !.stopped[m] = TRUE]
  /\ UNCHANGED << niov, hs, rd, rr, dm, sw, ch, ins, lk, mt >>

NextStop ==
  \/ stop_machine_make_connections
  \/ do_reconnect
  \/ deal_connect_events_error
  \/ deal_connect_events
  \/ stop_machine_stop_reconnect
  \/ ctl_close_socket
  \/ ctl_tick

SpecStop == InitStop /\ [][NextStop]_vars

\* do_connect ran for the context c in the step from st to nx: its connect
\* context is new, or the connect_count of its connect context grew
ConnectStarted(st, nx, c) ==
  /\ IndexOf(nx, c) # 0
  /\ \/ IndexOf(st, c) = 0
     \/ nx.connections[IndexOf(nx, c)].connect_count >
          st.connections[IndexOf(st, c)].connect_count

\* C38: after machine_stop_reconnect(m) has returned and until
\* machine_make_connections(m) is called again, no connect attempt is started
\* for a client context of m, the contexts that were active at the call and are
\* closed later included.
C38_NoConnectAfterStop ==
  [][\A c \in Clients(ctl) :
        (ctl.stopped[ctl.machine[c]] /\ ctl'.stopped[ctl.machine[c]])
           => ~ConnectStarted(ctl, ctl', c)]_vars

\* where a client context is
OnFreeList(c) ==
  \E m \in DOMAIN ctl.connect_free_list :
     \E k \in 1..Len(ctl.connect_free_list[m]) : ctl.connect_free_list[m][k] = c
Bound(c) == IndexOf(ctl, c) # 0
IsActive(c) == \E w \in DOMAIN ctl.active : c \in ActiveOf(ctl, w)

\* C13: a client context whose handshake failed because deal_hello_message rejected
\* the peer's hello, and whose connect context had need_reconnect set, is closed
\* and stays bound to a connect context of the controller's list, where
\* do_reconnect connects it again after the backoff interval.
C13_RejectedIsRetried ==
  \A c \in Clients(ctl) :
     ctl.hist[c].rejected => (ctl.sock[c] < 0 /\ Bound(c))

\* C16: every socket context is in exactly one place: on a freelist, bound to a
\* connect context of the controller's list (connecting or handshaking), or
\* active; never in two of them and never in none.
C16_ExactlyOnePlace ==
  \A c \in Clients(ctl) :
     /\ OnFreeList(c) \/ Bound(c) \/ IsActive(c)
     /\ ~(OnFreeList(c) /\ Bound(c))
     /\ ~(OnFreeList(c) /\ IsActive(c))
     /\ ~(Bound(c) /\ IsActive(c))

\* the number of times c is on the freelist of its machine
TimesFree(st, c) ==
  Cardinality({ k \in 1..Len(st.connect_free_list[st.machine[c]]) :
                  st.connect_free_list[st.machine[c]][k] = c })

\* a client context whose reconnecting was stopped, in the list with a closed socket
Stopped(st, c) ==
  /\ IndexOf(st, c) # 0
  /\ st.sock[c] < 0
  /\ ~st.connections[IndexOf(st, c)].need_reconnect

\* C15: after machine_stop_reconnect, a pass of do_reconnect takes every stopped context with a closed
\* socket from the list and puts it on the freelist of its machine once; it skips
\* none.
C15_EveryStoppedDrained ==
  [][do_reconnect =>
       \A c \in Clients(ctl) :
          Stopped(ctl, c) => (IndexOf(ctl', c) = 0 /\ TimesFree(ctl', c) = 1)]_vars


\* 100 ms * 2^(k-1), as far as the limit for a live peer
Doubled(k) == Least(ReconnectInitial * (2 ^ (k - 1)), LiveMaxInterval)

\* C14: for a context whose connect attempts keep failing, the wait before the k-th
\* retry is at least 100 ms * 2^(k-1), up to 30000 ms for a peer that is alive, and
\* when the peer is dead the wait before the next attempt is at most 1000 ms.
C14_MinimumWait ==
  \A c \in Clients(ctl) :
     LET r == ctl.hist[c].retry
     IN r.k >= 1 =>
          /\ ~ctl.ever_dead[ctl.machine[c]] => r.waited >= Doubled(r.k)
          /\ r.dead => r.required <= DeadMaxInterval


\* C17: the active_sockets of a worker never hold the same socket context twice,
\* and no socket context is in the active_sockets of two workers, whatever the
\* handoffs and closes.
C17_ActiveOnce ==
  /\ \A w \in DOMAIN ctl.active :
        \A j, k \in 1..Len(ctl.active[w]) : ctl.active[w][j] = ctl.active[w][k] => j = k
  /\ \A c \in Clients(ctl) :
        \A v, w \in DOMAIN ctl.active :
           (c \in ActiveOf(ctl, v) /\ c \in ActiveOf(ctl, w)) => v = w

\* every context is active with its worker, after a close_socket
C17_Witness ==
  /\ \A c \in Clients(ctl) : c \in ActiveOf(ctl, thread_context(c))
  /\ ctl.closed_once


\* ================================================================ context array
\* connection.cc: the connected_list of one machine and get_socket_context. The
\* counter index is unsigned and IndexBits wide.
IndexBits == 3                \* scaled width of SocketContextArray.index
MaxArray == 3                 \* contexts the connected_list can hold

IndexModulus == 2 ^ IndexBits
ArrayContexts == 1..MaxArray

\* a choice that moves on every second call
ContextIndexEverySecond(index, context_count) == (index \div 2) % context_count

\* ink_atomic_increment(&index, 1) % context_count, with the value index had
ContextIndex(index, context_count) == index % context_count

\* the last n entries of q
LastN(q, n) == IF Len(q) <= n THEN q ELSE SubSeq(q, Len(q) - n + 1, Len(q))

\* get_socket_context(machine)
rr_get_socket_context ==
  /\ LET context_count == Len(rr.contexts)
         null == ~rr.has_slot \/ context_count <= 0
         got == IF null THEN NULL
                ELSE rr.contexts[ContextIndex(rr.index, context_count) + 1]
     IN rr' = [rr EXCEPT
                 !.index = IF null THEN @ ELSE (@ + 1) % IndexModulus,
                 !.calls = IF null THEN << >>
                           ELSE LastN(Append(@, [at |-> rr.index, got |-> got]),
                                      context_count),
                 !.last = [has_slot |-> rr.has_slot, count |-> context_count,
                           got |-> got, called |-> TRUE]]
  /\ UNCHANGED << niov, hs, ctl, rd, dm, sw, ch, ins, lk, mt >>

\* add_machine_sock_context: a context that connected joins the connected_list
rr_add_machine_sock_context ==
  /\ rr.has_slot
  /\ \E c \in ArrayContexts :
        /\ \A k \in 1..Len(rr.contexts) : rr.contexts[k] # c
        /\ rr' = [rr EXCEPT !.contexts = Append(@, c), !.calls = << >>]
  /\ UNCHANGED << niov, hs, ctl, rd, dm, sw, ch, ins, lk, mt >>

\* remove_machine_sock_context: a context that closed leaves the connected_list
rr_remove_machine_sock_context ==
  /\ \E found \in 1..Len(rr.contexts) :
        rr' = [rr EXCEPT !.contexts = RemoveAt(@, found), !.calls = << >>]
  /\ UNCHANGED << niov, hs, ctl, rd, dm, sw, ch, ins, lk, mt >>

\* A machine with or without a slot in machine_sockets; nothing is connected yet.
InitArray ==
  /\ InitNio(0, FALSE, 0, 0, 0)
  /\ hs = NoHandshake
  /\ ctl = NoController
  /\ rd = NoReader
  /\ dm = NoDispatch
  /\ sw = NoPass
  /\ ch = NoChannel
  /\ ins = NoInsert /\ lk = NoLocks /\ mt = NoTable
  /\ \E has_slot \in BOOLEAN :
        rr = [has_slot |-> has_slot, contexts |-> << >>, index |-> 0, calls |-> << >>,
              last |-> [has_slot |-> has_slot, count |-> 0, got |-> NULL,
                        called |-> FALSE]]

NextArray ==
  \/ rr_get_socket_context
  \/ rr_add_machine_sock_context
  \/ rr_remove_machine_sock_context

SpecArray == InitArray /\ [][NextArray]_vars

\* the last n calls, n the length of the unchanged connected_list
FullRound == Len(rr.contexts) >= 1 /\ Len(rr.calls) = Len(rr.contexts)

\* the calls of the round returned every context of the connected_list once
EachOnce ==
  \A k \in 1..Len(rr.contexts) :
     Cardinality({ j \in 1..Len(rr.calls) : rr.calls[j].got = rr.contexts[k] }) = 1

\* the counter did not pass from its largest value to 0 inside the round
NoWrap == \A j \in 1..(Len(rr.calls) - 1) : rr.calls[j].at < rr.calls[j + 1].at

\* C20: with a connected_list of n >= 1 contexts that does not change, n consecutive
\* calls of get_socket_context return each of the n contexts once, provided the
\* counter does not wrap inside them or n divides the number of counter values;
\* with an empty connected_list, or for a machine without a slot, the call returns
\* null, and only then.
C20_RoundRobinUntilWrap ==
  /\ (FullRound /\ (NoWrap \/ IndexModulus % Len(rr.contexts) = 0)) => EachOnce
  /\ rr.last.called => (rr.last.got = NULL <=> (~rr.last.has_slot \/ rr.last.count = 0))

\* three calls on a list of three contexts, none of them the first calls made
C20_Witness ==
  /\ FullRound
  /\ Len(rr.contexts) = 3
  /\ NoWrap
  /\ rr.calls[1].at > 0
  /\ EachOnce

\* C20 as stated: any n consecutive calls on an unchanged connected_list of n
\* contexts return each context once; an empty list or a machine without a slot
\* gives null.
C20_RoundRobin ==
  /\ FullRound => EachOnce
  /\ rr.last.called => (rr.last.got = NULL <=> (~rr.last.has_slot \/ rr.last.count = 0))


\* ------------------------------------------------ get_socket_context, step by step
\* get_socket_context takes no lock: its loads of count and of contexts[] run
\* between the stores of add_machine_sock_context and
\* remove_machine_sock_context, which hold the controller's lock and so exclude
\* each other only.  The arrays that malloc returned are numbered; contexts is
\* the number of the current one, 0 for NULL.
FirstAllocSize == 2           \* scaled first alloc_size (64)
MaxArrays == 2                \* arrays malloc can return

GARBAGE == 0 - 1              \* what a load from freed memory can give
Arrays == 1..MaxArrays
NoMemory == [state |-> "none", slots |-> << >>]

\* the slots of a new array after memset and memcpy
CopiedSlots(alloc_size, old, count) ==
  [k \in 1..alloc_size |-> IF k <= count THEN old[k] ELSE NULL]

\* the contexts of the connected_list as the holders of the lock see it, with
\* the call in progress counted as done or as not done
Listed_either(st) == st.list \cup (IF st.op = "add" THEN { st.arg } ELSE { })
EmptyEither(st) == st.list = { } \/ (st.op = "remove" /\ st.list = { st.arg })

\* what the caller of get_socket_context could have seen of the list
Observe(st) ==
  IF st.rpc = "idle" THEN st
  ELSE [st EXCEPT !.seen = @ \cup Listed_either(st),
                  !.ever_empty = @ \/ EmptyEither(st)]

\* get_socket_context: context_count = pSocketContextArray->count, and for a
\* positive count the counter is taken
gsc_load_count ==
  /\ rr.rpc = "idle"
  /\ rr' = Observe(
             IF rr.count <= 0
             THEN [rr EXCEPT !.rpc = "returned", !.result = NULL, !.context_count = rr.count,
                             !.seen = { }, !.ever_empty = FALSE]
             ELSE [rr EXCEPT !.rpc = "counted", !.context_count = rr.count,
                             !.context_index = ContextIndex(rr.index, rr.count),
                             !.index = (@ + 1) % IndexModulus,
                             !.seen = { }, !.ever_empty = FALSE])
  /\ UNCHANGED << niov, hs, ctl, rd, dm, sw, ch, ins, lk, mt >>

\* the load of pSocketContextArray->contexts
gsc_load_contexts ==
  /\ rr.rpc = "counted"
  /\ rr' = Observe([rr EXCEPT !.rpc = "pointed", !.ptr = rr.contexts])
  /\ UNCHANGED << niov, hs, ctl, rd, dm, sw, ch, ins, lk, mt >>

\* the load of contexts[context_index]; freed memory gives anything
gsc_load_slot ==
  /\ rr.rpc = "pointed"
  /\ \E got \in IF rr.mem[rr.ptr].state = "freed"
                THEN ArrayContexts \cup { NULL, GARBAGE }
                ELSE { rr.mem[rr.ptr].slots[rr.context_index + 1] } :
        rr' = Observe([rr EXCEPT !.rpc = "returned", !.result = got])
  /\ UNCHANGED << niov, hs, ctl, rd, dm, sw, ch, ins, lk, mt >>

\* the caller has the result
gsc_return ==
  /\ rr.rpc = "returned"
  /\ rr' = [rr EXCEPT !.rpc = "idle", !.result = NULL, !.context_count = 0,
                      !.context_index = 0, !.ptr = 0, !.seen = { }, !.ever_empty = FALSE]
  /\ UNCHANGED << niov, hs, ctl, rd, dm, sw, ch, ins, lk, mt >>

\* add_machine_sock_context, from the lock to the new array in place when the old
\* one is full
race_add_begin ==
  /\ rr.op = "none"
  /\ rr.count < MaxArray
  /\ \E c \in ArrayContexts \ rr.list :
        IF rr.count >= rr.alloc_size
        THEN \E new \in Arrays :
               /\ rr.mem[new].state = "none"
               /\ \A a \in Arrays : a < new => rr.mem[a].state # "none"
               /\ LET alloc_size == IF rr.alloc_size = 0 THEN FirstAllocSize
                                    ELSE rr.alloc_size * 2
                  IN rr' = Observe(
                       [rr EXCEPT
                          !.op = "add", !.arg = c,
                          !.mpc = IF rr.contexts = 0 THEN "store" ELSE "free",
                          !.old = rr.contexts,
                          !.alloc_size = alloc_size,
                          !.contexts = new,
                          !.mem[new] =
                             [state |-> "live",
                              slots |-> CopiedSlots(alloc_size,
                                                    IF rr.contexts = 0 THEN << >>
                                                    ELSE rr.mem[rr.contexts].slots,
                                                    rr.count)]])
        ELSE rr' = Observe([rr EXCEPT !.op = "add", !.arg = c, !.mpc = "store"])
  /\ UNCHANGED << niov, hs, ctl, rd, dm, sw, ch, ins, lk, mt >>

\* free(oldContexts)
race_add_free ==
  /\ rr.op = "add" /\ rr.mpc = "free"
  /\ rr' = Observe([rr EXCEPT !.mem[rr.old] = [state |-> "freed", slots |-> << >>],
                              !.old = 0, !.mpc = "store"])
  /\ UNCHANGED << niov, hs, ctl, rd, dm, sw, ch, ins, lk, mt >>

\* contexts[count++] = pSockContext: the two stores, in the order the build
\* gives them, and the release of the lock after the second
race_add_store ==
  /\ rr.op = "add" /\ rr.mpc \in { "store", "slot_left", "count_left" }
  /\ \E first \in IF rr.mpc = "store" THEN { "slot", "count" }
                  ELSE IF rr.mpc = "slot_left" THEN { "slot" } ELSE { "count" } :
        LET at == IF rr.mpc = "slot_left" THEN rr.count ELSE rr.count + 1
            stored == IF first = "slot"
                      THEN [rr EXCEPT !.mem[rr.contexts].slots[at] = rr.arg]
                      ELSE [rr EXCEPT !.count = @ + 1]
        IN rr' = Observe(
                   IF rr.mpc = "store"
                   THEN [stored EXCEPT !.mpc = IF first = "slot" THEN "count_left"
                                               ELSE "slot_left"]
                   ELSE [stored EXCEPT !.op = "none", !.mpc = "", !.arg = NULL,
                                       !.list = @ \cup { rr.arg }])
  /\ UNCHANGED << niov, hs, ctl, rd, dm, sw, ch, ins, lk, mt >>

\* remove_machine_sock_context, from the lock to the context found
race_remove_begin ==
  /\ rr.op = "none"
  /\ \E found \in 1..rr.count :
        rr' = Observe([rr EXCEPT !.op = "remove", !.mpc = "shift", !.i = found + 1,
                                 !.arg = rr.mem[rr.contexts].slots[found]])
  /\ UNCHANGED << niov, hs, ctl, rd, dm, sw, ch, ins, lk, mt >>

\* contexts[i-1] = contexts[i]
race_remove_shift ==
  /\ rr.op = "remove" /\ rr.mpc = "shift"
  /\ rr.i <= rr.count
  /\ rr' = Observe([rr EXCEPT !.mem[rr.contexts].slots[rr.i - 1] =
                                 rr.mem[rr.contexts].slots[rr.i],
                              !.i = @ + 1])
  /\ UNCHANGED << niov, hs, ctl, rd, dm, sw, ch, ins, lk, mt >>

\* contexts[--count] = NULL: the two stores, in the order the build gives them,
\* and the release of the lock after the second
race_remove_store ==
  /\ rr.op = "remove"
  /\ \/ rr.mpc = "shift" /\ rr.i > rr.count
     \/ rr.mpc \in { "slot_left", "count_left" }
  /\ \E first \in IF rr.mpc = "shift" THEN { "slot", "count" }
                  ELSE IF rr.mpc = "slot_left" THEN { "slot" } ELSE { "count" } :
        LET at == IF rr.mpc = "slot_left" THEN rr.count + 1 ELSE rr.count
            stored == IF first = "slot"
                      THEN [rr EXCEPT !.mem[rr.contexts].slots[at] = NULL]
                      ELSE [rr EXCEPT !.count = @ - 1]
        IN rr' = Observe(
                   IF rr.mpc = "shift"
                   THEN [stored EXCEPT !.mpc = IF first = "slot" THEN "count_left"
                                               ELSE "slot_left"]
                   ELSE [stored EXCEPT !.op = "none", !.mpc = "", !.arg = NULL, !.i = 0,
                                       !.list = @ \ { rr.arg }])
  /\ UNCHANGED << niov, hs, ctl, rd, dm, sw, ch, ins, lk, mt >>

\* connection_init has run: the connected_list has no array yet
InitRace ==
  /\ InitNio(0, FALSE, 0, 0, 0)
  /\ hs = NoHandshake
  /\ ctl = NoController
  /\ rd = NoReader
  /\ dm = NoDispatch
  /\ sw = NoPass
  /\ ch = NoChannel
  /\ ins = NoInsert /\ lk = NoLocks /\ mt = NoTable
  /\ rr = [contexts |-> 0, count |-> 0, alloc_size |-> 0, index |-> 0,
           mem |-> [a \in Arrays |-> NoMemory],
           list |-> { }, op |-> "none", mpc |-> "", arg |-> NULL, i |-> 0, old |-> 0,
           rpc |-> "idle", context_count |-> 0, context_index |-> 0, ptr |-> 0,
           result |-> NULL, seen |-> { }, ever_empty |-> FALSE]

NextRace ==
  \/ gsc_load_count
  \/ gsc_load_contexts
  \/ gsc_load_slot
  \/ gsc_return
  \/ race_add_begin
  \/ race_add_free
  \/ race_add_store
  \/ race_remove_begin
  \/ race_remove_shift
  \/ race_remove_store

SpecRace == InitRace /\ [][NextRace]_vars

\* C37: get_socket_context, called while add_machine_sock_context and
\* remove_machine_sock_context run, returns null or a context that is in the
\* connected_list at some moment of the call, and null only when the list is
\* empty at some moment of the call.
C37_ReturnsListedOrEmpty ==
  rr.rpc = "returned" =>
     IF rr.result = NULL THEN rr.ever_empty ELSE rr.result \in rr.seen

\* ================================================================ read path
\* nio.cc: deal_read_event and append_to_blocks over the reader of one socket.
\* A byte is named by its position in the stream the peer sent; a receive buffer
\* is the sequence of the positions read into it.
BufferUnits == 3              \* scaled read_buffer_size, in units of ALIGN_BYTES
MsgUnits == 6                 \* scaled MAX_MSG_LENGTH, in units of ALIGN_BYTES
SmallRemain == 3              \* scaled 4 * 1024: the room below which a buffer is left
MaxFrames == 2                \* frames in the stream of the peer

\* the size of a receive buffer, a multiple of ALIGN_BYTES
read_buffer_size == BufferUnits * ALIGN_BYTES

\* the largest aligned_data_len, a multiple of ALIGN_BYTES
MAX_MSG_LENGTH == MsgUnits * ALIGN_BYTES

ENOSPC == "ENOSPC"
ENOENT == "ENOENT"
ABORT == "abort"

\* the frames the peer can send: the sign of func_id and data_len
FrameHeaders ==
  [func_id : { -1, 1 }, data_len : 0..MAX_MSG_LENGTH]

\* MSG_HEADER_LENGTH + aligned_data_len
FrameBytes(h) == MSG_HEADER_LENGTH + BYTE_ALIGN(h.data_len)

\* the stream position before the first byte of frame k
RECURSIVE FrameStart(_, _)
FrameStart(frames, k) ==
  IF k <= 1 THEN 0 ELSE FrameStart(frames, k - 1) + FrameBytes(frames[k - 1])

StreamLen(frames) == FrameStart(frames, Len(frames) + 1)

\* the payload of frame k: data_len positions after its header
Payload(frames, k) ==
  [j \in 1..frames[k].data_len |-> FrameStart(frames, k) + MSG_HEADER_LENGTH + j]

\* the header that is not the header of any frame
GarbageHeader == [frame |-> 0, func_id |-> 1, data_len |-> 0, aligned_data_len |-> 0]

\* (MsgHeader *)reader.msg_header: the fields of the bytes msg_header points at
HeaderAt(st) ==
  LET b == st.bufs[st.msg_header.buf]
      off == st.msg_header.off
      ks == { k \in 1..Len(st.frames) :
                /\ off + MSG_HEADER_LENGTH <= Len(b)
                /\ \A j \in 1..MSG_HEADER_LENGTH :
                      b[off + j] = FrameStart(st.frames, k) + j }
  IN IF ks = {} THEN GarbageHeader
     ELSE LET k == CHOOSE x \in ks : TRUE
          IN [frame |-> k, func_id |-> st.frames[k].func_id,
              data_len |-> st.frames[k].data_len,
              aligned_data_len |-> BYTE_ALIGN(st.frames[k].data_len)]

\* new_RecvBuffer: a buffer no pointer of the reader refers to
NewBuffer(st) ==
  CHOOSE n \in 1..(Cardinality(DOMAIN st.bufs) + 1) :
     /\ n \notin DOMAIN st.bufs
     /\ \A b \in 1..(n - 1) : b \in DOMAIN st.bufs

\* Ptr<IOBufferData>: a buffer lives while the reader, msg_header or a block holds it
Release(st) ==
  LET held == { st.buffer, st.msg_header.buf } \cup { st.blocks[k].buf : k \in 1..Len(st.blocks) }
  IN [st EXCEPT !.bufs = [b \in held |-> st.bufs[b]]]

\* ALLOC_READER_BUFFER: msg_header stays where it is
ALLOC_READER_BUFFER(st) ==
  LET n == NewBuffer(st)
  IN [st EXCEPT !.bufs = [b \in DOMAIN st.bufs \cup { n } |->
                             IF b = n THEN << >> ELSE st.bufs[b]],
                !.buffer = n, !.current = 0]

\* INIT_READER
INIT_READER(st) ==
  [ALLOC_READER_BUFFER(st) EXCEPT !.msg_header = [buf |-> NewBuffer(st), off |-> 0]]

\* MOVE_TO_NEW_BUFFER: the msg_bytes bytes from msg_header on are copied
MOVE_TO_NEW_BUFFER(st, msg_bytes) ==
  LET old == st.bufs[st.msg_header.buf]
      kept == SubSeq(old, st.msg_header.off + 1, st.msg_header.off + msg_bytes)
      n == NewBuffer(st)
  IN [INIT_READER(st) EXCEPT !.bufs[n] = kept, !.current = msg_bytes]

\* a first block that starts at the header
BlockOffsetAtHeader(st) == st.msg_header.off

\* (msg_header + MSG_HEADER_LENGTH) - buffer->_data
BlockOffset(st) == st.msg_header.off + MSG_HEADER_LENGTH

\* append_to_blocks
append_to_blocks(st, current_body_bytes) ==
  IF st.blocks = << >>
    THEN [st EXCEPT !.blocks = << [buf |-> st.buffer, off |-> BlockOffset(st),
                                   len |-> current_body_bytes] >>]
    ELSE [st EXCEPT !.blocks = Append(@, [buf |-> st.buffer, off |-> 0,
                                          len |-> current_body_bytes])]

\* the bytes of a block chain, concatenated
RECURSIVE BlockBytes(_, _)
BlockBytes(st, bs) ==
  IF bs = << >> THEN << >>
  ELSE LET b == Head(bs)
       IN SubSeq(st.bufs[b.buf], b.off + 1, b.off + b.len) \o BlockBytes(st, Tail(bs))

\* no frame is held to one receive buffer
SingleBufferNever(pHeader) == FALSE

\* pHeader->func_id < 0: the frame must be only one block
SingleBufferOnly(pHeader) == pHeader.func_id < 0

\* an unaligned frame at the end of a buffer is a protocol violation
UnalignedIsError(result) == EINVAL

\* what deal_read_event returns when the body bytes are not aligned yet
UnalignedResult(result) == result

\* every value passes the alignment test
AlignedAlways(recv_body_bytes) == TRUE

\* recv_body_bytes % ALIGN_BYTES == 0
Aligned(recv_body_bytes) == recv_body_bytes % ALIGN_BYTES = 0

\* deal_message(pHeader, pSockContext, reader.blocks)
rd_deal_message(st, pHeader) ==
  [st EXCEPT !.dispatched = Append(@, [frame |-> pHeader.frame,
                                       func_id |-> pHeader.func_id,
                                       data_len |-> pHeader.data_len,
                                       body |-> BlockBytes(st, st.blocks),
                                       nblocks |-> Len(st.blocks)])]

\* leaving the loop: what deal_read_event returns
Return(st, result) ==
  [Release(st) EXCEPT !.ret = result,
                      !.aligned = @ /\ st.recv_body_bytes % ALIGN_BYTES = 0]

\* the while (1) loop of deal_read_event, from the top of one iteration
RECURSIVE ReadLoop(_, _, _)
ReadLoop(st0, result, fuel) ==
  LET st == [st0 EXCEPT !.aligned = @ /\ st0.recv_body_bytes % ALIGN_BYTES = 0,
                        !.unaligned = FALSE]
      bFirstBlock == st.blocks = << >>
      remain == read_buffer_size - st.current
      msg_bytes == IF bFirstBlock THEN st.current - st.msg_header.off ELSE st.current
  IN
  IF fuel = 0 THEN Return(st, ABORT)
  ELSE IF bFirstBlock /\ msg_bytes < MSG_HEADER_LENGTH THEN
    IF remain < SmallRemain
      THEN IF msg_bytes > 0
             THEN Return(MOVE_TO_NEW_BUFFER(st, msg_bytes), result)
             ELSE Return(INIT_READER(st), result)
      ELSE Return(st, result)
  ELSE
    LET recv_body_bytes == IF bFirstBlock THEN msg_bytes - MSG_HEADER_LENGTH
                           ELSE st.recv_body_bytes + msg_bytes
        pHeader == HeaderAt(st)
    IN
    IF pHeader.aligned_data_len > MAX_MSG_LENGTH THEN Return(st, ENOSPC)
    ELSE IF recv_body_bytes < pHeader.aligned_data_len THEN
      LET padding_body_bytes == recv_body_bytes - st.recv_body_bytes
          recv_padding_len == recv_body_bytes - pHeader.data_len
          current_true_body_bytes ==
            IF recv_padding_len > 0 THEN padding_body_bytes - recv_padding_len
            ELSE padding_body_bytes
      IN
      IF recv_body_bytes + remain >= pHeader.aligned_data_len THEN Return(st, result)
      ELSE IF SingleBufferOnly(pHeader) THEN
        IF ~bFirstBlock THEN Return(st, EINVAL)
        ELSE Return(MOVE_TO_NEW_BUFFER(st, msg_bytes), result)
      ELSE IF remain >= SmallRemain THEN Return(st, result)
      ELSE IF ~Aligned(recv_body_bytes) THEN
        IF st.current < read_buffer_size
          THEN [Return(st, UnalignedResult(result)) EXCEPT !.unaligned = TRUE]
          ELSE Return(st, ABORT)
      ELSE
        LET st1 == IF current_true_body_bytes > 0
                     THEN append_to_blocks(st, current_true_body_bytes) ELSE st
            st2 == [st1 EXCEPT !.recv_body_bytes = recv_body_bytes]
        IN IF bFirstBlock /\ current_true_body_bytes <= 0
             THEN Return(MOVE_TO_NEW_BUFFER(st2, msg_bytes), result)
             ELSE Return(ALLOC_READER_BUFFER(st2), result)
    ELSE
      LET padding_body_bytes == IF bFirstBlock THEN pHeader.aligned_data_len
                                ELSE pHeader.aligned_data_len - st.recv_body_bytes
          padding_len == pHeader.aligned_data_len - pHeader.data_len
          current_true_body_bytes ==
            IF padding_len > 0
              THEN IF padding_body_bytes > padding_len
                     THEN padding_body_bytes - padding_len ELSE 0
              ELSE padding_body_bytes
          st1 == IF current_true_body_bytes > 0
                   THEN append_to_blocks(st, current_true_body_bytes) ELSE st
          st2 == rd_deal_message(st1, pHeader)
          st3 == [st2 EXCEPT
                    !.blocks = << >>,
                    !.recv_body_bytes = IF @ > 0 THEN 0 ELSE @,
                    !.reset = @ /\ (IF st2.recv_body_bytes > 0 THEN 0
                                    ELSE st2.recv_body_bytes) = 0,
                    !.msg_header =
                       IF bFirstBlock
                         THEN [buf |-> st.msg_header.buf,
                               off |-> st.msg_header.off + MSG_HEADER_LENGTH + padding_body_bytes]
                         ELSE [buf |-> st.buffer, off |-> padding_body_bytes]]
      IN ReadLoop(st3, result, fuel - 1)

\* deal_read_event with read() returning read_bytes > 0 of the bytes that arrived
deal_read_event ==
  /\ ~rd.closed
  /\ read_buffer_size - rd.current > 0
  /\ \E read_bytes \in 1..(read_buffer_size - rd.current) :
        /\ rd.pos + read_bytes <= StreamLen(rd.frames)
        /\ LET st == [rd EXCEPT
                        !.bufs[rd.buffer] = @ \o [j \in 1..read_bytes |-> rd.pos + j],
                        !.pos = @ + read_bytes,
                        !.current = @ + read_bytes]
               result == IF read_buffer_size - st.current = 0 THEN OK ELSE EAGAIN
               out == ReadLoop(st, result, MaxFrames + 2)
           IN rd' = [out EXCEPT !.closed = out.ret \notin { OK, EAGAIN }]
  /\ UNCHANGED << niov, hs, ctl, rr, dm, sw, ch, ins, lk, mt >>

\* deal_read_event with no room left in the buffer: read() of 0 bytes returns 0
deal_read_event_full ==
  /\ ~rd.closed
  /\ read_buffer_size - rd.current = 0
  /\ rd' = [rd EXCEPT !.ret = ECONNRESET, !.closed = TRUE]
  /\ UNCHANGED << niov, hs, ctl, rr, dm, sw, ch, ins, lk, mt >>

\* deal_read_event after the peer has sent everything and closed
deal_read_event_eof ==
  /\ ~rd.closed
  /\ read_buffer_size - rd.current > 0
  /\ rd.pos = StreamLen(rd.frames)
  /\ rd' = [rd EXCEPT !.ret = ECONNRESET, !.closed = TRUE]
  /\ UNCHANGED << niov, hs, ctl, rr, dm, sw, ch, ins, lk, mt >>

\* nio_add_to_epoll: the reader of a socket that was just added, and the frames
\* its peer is going to send
InitReader ==
  /\ InitNio(0, FALSE, 0, 0, 0)
  /\ hs = NoHandshake
  /\ ctl = NoController
  /\ rr = NoArray
  /\ dm = NoDispatch
  /\ sw = NoPass
  /\ ch = NoChannel
  /\ ins = NoInsert /\ lk = NoLocks /\ mt = NoTable
  /\ \E n \in 1..MaxFrames : \E frames \in [1..n -> FrameHeaders] :
        rd = [frames |-> frames, pos |-> 0, bufs |-> [b \in { 1 } |-> << >>],
              buffer |-> 1, current |-> 0, msg_header |-> [buf |-> 1, off |-> 0],
              blocks |-> << >>, recv_body_bytes |-> 0, dispatched |-> << >>,
              ret |-> OK, closed |-> FALSE, aligned |-> TRUE, reset |-> TRUE,
              unaligned |-> FALSE]

NextReader ==
  \/ deal_read_event
  \/ deal_read_event_full
  \/ deal_read_event_eof

SpecReader == InitReader /\ [][NextReader]_vars


\* the frames whose last byte has been read
Arrived == { k \in 1..Len(rd.frames) : FrameStart(rd.frames, k + 1) <= rd.pos }

\* a frame deal_read_event can take: func_id >= 0, or header and aligned payload
\* within one receive buffer
SingleBufferOrUser(h) == h.func_id >= 0 \/ FrameBytes(h) <= read_buffer_size

\* dispatched frame k is frame k of the stream: header fields as sent and the
\* block chain equal to the payload, padding excluded
AsSent(k) ==
  /\ rd.dispatched[k].frame = k
  /\ rd.dispatched[k].func_id = rd.frames[k].func_id
  /\ rd.dispatched[k].data_len = rd.frames[k].data_len
  /\ rd.dispatched[k].body = Payload(rd.frames, k)

\* the socket is closed only by the end of the stream, after every frame
NeverFails ==
  rd.closed => /\ rd.ret = ECONNRESET
               /\ rd.pos = StreamLen(rd.frames)
               /\ Len(rd.dispatched) = Len(rd.frames)

\* C18: when every frame of the stream has func_id >= 0 or fits one receive
\* buffer, then however the transport splits the stream into reads, the frames
\* dispatched so far are exactly the frames that have arrived completely, in
\* order and once each, each with its header fields as sent and a block chain
\* whose concatenation is its payload (data_len bytes, padding excluded), and the
\* socket is not closed before the stream ends.
C18_FramesAsSent ==
  (\A k \in 1..Len(rd.frames) : SingleBufferOrUser(rd.frames[k])) =>
     /\ Len(rd.dispatched) = Cardinality(Arrived)
     /\ \A k \in 1..Len(rd.dispatched) : AsSent(k)
     /\ NeverFails

\* two frames dispatched, the first from three receive buffers, the second from
\* more than one
C18_Witness ==
  /\ Len(rd.dispatched) = 2
  /\ rd.dispatched[1].nblocks >= 3
  /\ rd.dispatched[2].nblocks >= 2
  /\ rd.pos = StreamLen(rd.frames)
  /\ AsSent(1)
  /\ AsSent(2)

\* C18 as stated: for any payload up to MAX_MSG_LENGTH, split into reads of any
\* sizes, exactly the frames that arrived are dispatched, in order, once each,
\* with header fields as sent and the block chain equal to the payload, and the
\* socket is not closed before the stream ends.
C18_AnyFrameAsSent ==
  /\ Len(rd.dispatched) = Cardinality(Arrived)
  /\ \A k \in 1..Len(rd.dispatched) : AsSent(k)
  /\ NeverFails

\* C19: reader.recv_body_bytes is a multiple of ALIGN_BYTES at the top of every
\* iteration of the loop in deal_read_event and whenever deal_read_event returns,
\* and it is 0 after every dispatch of a frame.
C19_RecvBodyBytesAligned ==
  /\ rd.aligned
  /\ rd.recv_body_bytes % ALIGN_BYTES = 0
  /\ rd.reset

\* a frame of several blocks was dispatched, and the next frame has left bytes in
\* an earlier buffer
C19_Witness ==
  /\ Len(rd.dispatched) >= 1
  /\ rd.dispatched[1].nblocks >= 2
  /\ rd.recv_body_bytes > 0
  /\ rd.blocks # << >>


\* the frames with func_id < 0 and data_len larger than read_buffer_size -
\* MSG_HEADER_LENGTH
Oversized ==
  { k \in 1..Len(rd.frames) :
      /\ rd.frames[k].func_id < 0
      /\ rd.frames[k].data_len > read_buffer_size - MSG_HEADER_LENGTH }

\* C22: a frame with func_id < 0 and data_len larger than read_buffer_size -
\* MSG_HEADER_LENGTH is never dispatched and never stored in a block chain; no
\* more than one receive buffer of it is read, and once a whole buffer of it has
\* been read the socket is closed by the read that follows at once.
C22_OversizedRejected ==
  \A k \in Oversized :
     /\ \A j \in 1..Len(rd.dispatched) : rd.dispatched[j].frame # k
     /\ rd.pos - FrameStart(rd.frames, k) <= read_buffer_size
     /\ (rd.pos > FrameStart(rd.frames, k) /\ Len(rd.dispatched) = k - 1) => rd.blocks = << >>
     /\ rd.pos - FrameStart(rd.frames, k) = read_buffer_size =>
           \/ rd.closed /\ rd.ret = ECONNRESET
           \/ ~rd.closed /\ rd.ret = OK /\ rd.current = read_buffer_size

\* the socket was closed on the second frame, an oversized one that began in the
\* middle of a receive buffer
C22_Witness ==
  /\ 2 \in Oversized
  /\ 1 \notin Oversized
  /\ rd.frames[1].data_len > 0
  /\ Len(rd.dispatched) = 1
  /\ rd.closed
  /\ rd.pos - FrameStart(rd.frames, 2) = read_buffer_size

LateResponse ==
  /\ net_in # << >>
  /\ ping_start_time = 0
  /\ deal_message
  /\ Head(net_in) = FUNC_ID_CLUSTER_PING_RESPONSE

\* C25: a PING_RESPONSE received while no ping is outstanding leaves
\* ping_start_time at 0 and ping_success_count and ping_time_used (all statistics
\* of the worker) as they are, and sets ping_fail_count to 0.
C25_LateResponseClearsFailures ==
  [][LateResponse => /\ ping_start_time' = 0
                     /\ stats' = stats
                     /\ ping_fail_count' = 0]_vars

\* on a socket in its first connection a ping was sent, timed out and was answered:
\* the answer counted as no success and the failure count is 0 again
C25_Witness ==
  /\ Active
  /\ version = PRIORITY_COUNT
  /\ stats.ping_total_count = 1
  /\ stats.ping_success_count = 0
  /\ peer_reqs = 0
  /\ net_in = << >>
  /\ Queued = { }
  /\ ping_start_time = 0
  /\ ping_fail_count = 0
  /\ pc = "poll"

\* C25 as stated: a PING_RESPONSE received while no ping is outstanding leaves
\* ping_start_time, ping_fail_count, ping_success_count and ping_time_used
\* unchanged.
C25_LateResponseIgnored ==
  [][LateResponse => /\ ping_start_time' = ping_start_time
                     /\ ping_fail_count' = ping_fail_count
                     /\ stats'.ping_success_count = stats.ping_success_count
                     /\ stats'.ping_time_used = stats.ping_time_used]_vars


\* the client contexts a step took out of the active sockets of their workers
ClosedByStep ==
  { c \in Clients(ctl) :
      /\ \E w \in DOMAIN ctl.active : c \in ActiveOf(ctl, w)
      /\ \A w \in DOMAIN ctl'.active : c \notin ActiveOf(ctl', w) }

\* C21 (the client-role part): after close_socket completes on an active
\* client-role socket, the context is in no worker's active_sockets and is back
\* under the controller for reconnection: bound to a connect context of the
\* controller's list with need_reconnect true.
C21_ClosedClientIsBound ==
  [][ctl_close_socket =>
       \A c \in ClosedByStep :
          /\ IndexOf(ctl', c) # 0
          /\ ctl'.connections[IndexOf(ctl', c)].need_reconnect]_vars

\* ------------------------------------------- the connect thread, both roles
\* The contexts of the connect thread (connection.cc) with client-role and
\* server-role sockets: do_connect, deal_income_connection, connection_handler,
\* release_connection and close_timeout_connections.  The listening entry of
\* connections never has need_check_timeout and is left out.  The times of
\* reconnecting are in the controller model above; here a closed client context
\* of the list may be connected again at any time.
NumChannels == 3              \* socket contexts of the connect thread
ChannelClock == 2             \* last clock value (SpecChannel)
HelloUnits == 2               \* scaled total_bytes of a hello (header and HelloMessage)
MAX_TIMEOUT_SOCKET_COUNT == 2 \* scaled 64

HANG == "hang"
PROCEED == "proceed"

ChContexts == 1..NumChannels

\* the hellos a peer can send: either func_id, with the build of this node, with
\* a build this node shares no major with, with min_major = 0, or with a
\* data_len that is not sizeof(HelloMessage)
ChannelHellos ==
  LET peer(a, b) == [major |-> a, minor |-> 0, min_major |-> b, min_minor |-> 0]
  IN UNION { { fill_send_buffer(ThisBuild, f),
               fill_send_buffer(peer(1, 1), f),
               fill_send_buffer(peer(MajorModulus - 1, 0), f),
               [fill_send_buffer(ThisBuild, f) EXCEPT !.data_len = HelloMessageSize + 1] } :
             f \in { FUNC_ID_CLUSTER_HELLO_REQUEST, FUNC_ID_CLUSTER_HELLO_RESPONSE } }

\* what the system calls of one connection_handler call do: the socket call
\* transfers n bytes ("ok"), would block, or fails; the ev_poll call fails; or
\* machine_add_connection fails
ChannelOutcomes ==
  { [kind |-> "ok", n |-> n, hello |-> h] : n \in 1..HelloUnits, h \in ChannelHellos }
    \cup { [kind |-> k, n |-> HelloUnits, hello |-> AcceptedHello] :
             k \in { "EAGAIN", "io_fail", "poll_fail", "add_fail" } }

NoContext == [connect_type |-> CONNECT_TYPE_CLIENT, state |-> STATE_NOT_CONNECT,
              sock |-> FALSE, need_check_timeout |-> FALSE,
              connect_start_time |-> 0, server_start_time |-> 0,
              send_bytes |-> 0, recv_bytes |-> 0, steps |-> << >>, hello |-> NoMsg]

Without(q, x) == SelectSeq(q, LAMBDA y : y # x)
InSeq(q, x) == \E k \in 1..Len(q) : q[k] = x

\* The fields of a context that are written before they are read again hold
\* their initial values: all of them when the context is in no list, the byte
\* counts and times of the states other than the current one otherwise.
Settle(st) ==
  [st EXCEPT !.c = [c \in ChContexts |->
     LET e == st.c[c]
     IN IF c \in st.worker
        THEN [NoContext EXCEPT !.connect_type = e.connect_type, !.sock = TRUE,
                               !.steps = e.steps, !.hello = e.hello]
        ELSE IF ~InSeq(st.connections, c)
        THEN [NoContext EXCEPT !.connect_type = e.connect_type]
        ELSE [e EXCEPT
                !.connect_start_time =
                   IF e.state = STATE_CONNECTING /\ e.sock THEN @ ELSE 0,
                !.server_start_time =
                   IF e.state = STATE_RECV_DATA /\ e.sock THEN @ ELSE 0,
                !.send_bytes = IF e.state = STATE_SEND_DATA /\ e.sock THEN @ ELSE 0,
                !.recv_bytes = IF e.state = STATE_RECV_DATA /\ e.sock THEN @ ELSE 0,
                !.steps = IF e.sock THEN @ ELSE << >>,
                !.hello = IF e.sock THEN @ ELSE NoMsg]]]

\* remove_connection
ch_remove_connection(st, c) == [st EXCEPT !.connections = Without(@, c)]

\* close_connection
ch_close_connection(st, c) == [st EXCEPT !.c[c].sock = FALSE]

\* free_accept_sock_context
ch_free_accept_sock_context(st, c) == [st EXCEPT !.accept_free_list = << c >> \o @]

\* a hello is accepted whatever deal_hello_message returns
HelloAcceptedAlways(result) == TRUE

\* result == 0 after deal_hello_message
HelloAccepted(result) == result = OK

\* the end of connection_handler: detach, remove_connection, and
\* machine_add_connection (the hand-off to the worker) or close_connection
ChannelEnd(st, c, result, o) ==
  LET removed == ch_remove_connection(st, c)
      added == IF result # OK THEN result ELSE IF o.kind = "add_fail" THEN EIO ELSE OK
      closed == ch_close_connection(removed, c)
  IN IF added = OK THEN [removed EXCEPT !.worker = @ \cup { c }]
     ELSE IF st.c[c].connect_type = CONNECT_TYPE_SERVER
     THEN ch_free_accept_sock_context(closed, c)
     ELSE closed

\* do_send_data / do_recv_data: the bytes one call adds to done
Transfer(done, o) ==
  IF o.kind \in { "EAGAIN", "io_fail" } THEN 0
  ELSE IF o.n < HelloUnits - done THEN o.n ELSE HelloUnits - done

\* connection_handler for the context of socket context c
ch_connection_handler(st, c, o) ==
  LET e == st.c[c]
      client == e.connect_type = CONNECT_TYPE_CLIENT
      \* events != 0: attach or modify, then return 0
      wait(s) == IF o.kind = "poll_fail" THEN ChannelEnd(s, c, EIO, o) ELSE s
      send_data == [st EXCEPT !.c[c].state = STATE_SEND_DATA, !.c[c].send_bytes = 0]
      recv_data == [st EXCEPT !.c[c].state = STATE_RECV_DATA, !.c[c].recv_bytes = 0,
                              !.c[c].server_start_time = st.clock]
      sent == e.send_bytes + Transfer(e.send_bytes, o)
      received == e.recv_bytes + Transfer(e.recv_bytes, o)
      hello == deal_hello_message(e.connect_type, ThisBuild, o.hello).result
  IN CASE e.state \in { STATE_CONNECTING, STATE_CONNECTED } ->
            IF e.state = STATE_CONNECTING /\ o.kind = "io_fail"
            THEN ChannelEnd(st, c, EIO, o)
            ELSE IF client THEN wait(send_data) ELSE wait(recv_data)
       [] e.state = STATE_SEND_DATA ->
            IF o.kind = "io_fail" THEN ChannelEnd(st, c, EIO, o)
            ELSE IF sent < HelloUnits
            THEN wait([st EXCEPT !.c[c].send_bytes = sent])
            ELSE LET done == [st EXCEPT !.c[c].send_bytes = sent,
                                        !.c[c].steps = Append(@, "sent")]
                 IN IF client
                    THEN wait([done EXCEPT !.c[c].state = STATE_RECV_DATA,
                                           !.c[c].recv_bytes = 0,
                                           !.c[c].server_start_time = st.clock])
                    ELSE ChannelEnd(done, c, OK, o)
       [] e.state = STATE_RECV_DATA ->
            IF o.kind = "io_fail" THEN ChannelEnd(st, c, ECONNRESET, o)
            ELSE IF received < HelloUnits
            THEN wait([st EXCEPT !.c[c].recv_bytes = received])
            ELSE LET got == [st EXCEPT !.c[c].recv_bytes = received,
                                       !.c[c].hello = o.hello,
                                       !.c[c].steps =
                                          Append(@, IF hello = OK THEN "accepted"
                                                    ELSE "rejected")]
                 IN IF hello = NEVER_RETURNS THEN [got EXCEPT !.hung = TRUE]
                    ELSE IF client
                    THEN ChannelEnd(got, c, IF HelloAccepted(hello) THEN OK ELSE EINVAL, o)
                    ELSE IF HelloAccepted(hello)
                    THEN wait([got EXCEPT !.c[c].state = STATE_SEND_DATA,
                                          !.c[c].send_bytes = 0])
                    ELSE ChannelEnd(got, c, hello, o)
       [] OTHER -> ChannelEnd(st, c, EINVAL, o)

\* do_connect for the client context c of the list
ch_do_connect_of(st, c, co) ==
  LET begun == [st EXCEPT !.c[c].state = STATE_CONNECTING, !.c[c].steps = << >>,
                          !.c[c].hello = NoMsg, !.c[c].send_bytes = 0,
                          !.c[c].recv_bytes = 0]
      opened == [begun EXCEPT !.c[c].sock = TRUE, !.c[c].connect_start_time = st.clock]
  IN CASE co.connect = "socket_fail" -> begun
       [] co.connect = "connect_fail" -> ch_close_connection(opened, c)
       [] co.connect = "EINPROGRESS" -> [opened EXCEPT !.c[c].need_check_timeout = TRUE]
       [] OTHER -> ch_connection_handler(
                     [opened EXCEPT !.c[c].state = STATE_CONNECTED,
                                    !.c[c].need_check_timeout = TRUE], c, co.handler)

InList(c) == InSeq(ch.connections, c)
Ready == ch # NoChannel /\ ~ch.hung
\* the outcomes that differ for a handler call that cannot end a receive
HandlerKinds == { o \in ChannelOutcomes : o.kind # "ok" \/ o.hello = AcceptedHello }
\* what the system calls of one do_connect call do
ChannelConnects ==
  { [connect |-> k, handler |-> CHOOSE o \in HandlerKinds : o.kind = "EAGAIN"] :
      k \in { "socket_fail", "connect_fail", "EINPROGRESS" } }
    \cup { [connect |-> "connected", handler |-> o] : o \in HandlerKinds }
\* the outcomes that differ for a handler call of context c
EventOutcomes(st, c) ==
  IF st.c[c].state = STATE_RECV_DATA THEN ChannelOutcomes ELSE HandlerKinds

\* make_connection: alloc_connect_context, then do_connect
ch_make_connection ==
  /\ Ready
  /\ \E c \in ChContexts, co \in ChannelConnects :
       /\ ch.c[c].connect_type = CONNECT_TYPE_CLIENT
       /\ ~InList(c) /\ c \notin ch.worker
       /\ ch' = Settle(ch_do_connect_of(
                  [ch EXCEPT !.connections = Append(@, c),
                             !.c[c].need_check_timeout = FALSE], c, co))
  /\ UNCHANGED << niov, hs, ctl, rd, rr, dm, sw, ins, lk, mt >>

\* do_reconnect: do_connect for a context of the list whose socket is closed
ch_do_reconnect ==
  /\ Ready
  /\ \E c \in ChContexts, co \in ChannelConnects :
       /\ ch.c[c].connect_type = CONNECT_TYPE_CLIENT
       /\ InList(c) /\ ~ch.c[c].sock
       /\ ch' = Settle(ch_do_connect_of(ch, c, co))
  /\ UNCHANGED << niov, hs, ctl, rd, rr, dm, sw, ins, lk, mt >>

\* deal_income_connection: alloc_accept_sock_context, alloc_connect_context,
\* then connection_handler in STATE_CONNECTED
ch_deal_income_connection ==
  /\ Ready
  /\ ch.accept_free_list # << >>
  /\ \E o \in HandlerKinds :
       LET c == Head(ch.accept_free_list)
       IN ch' = Settle(ch_connection_handler(
                  [ch EXCEPT !.accept_free_list = Tail(@),
                             !.connections = Append(@, c),
                             !.c[c] = [NoContext EXCEPT
                                         !.connect_type = CONNECT_TYPE_SERVER,
                                         !.sock = TRUE, !.state = STATE_CONNECTED,
                                         !.need_check_timeout = TRUE]], c, o))
  /\ UNCHANGED << niov, hs, ctl, rd, rr, dm, sw, ins, lk, mt >>

\* release_connection with needLock
ch_release_connection(st, c) ==
  LET closed == ch_close_connection(st, c)
  IN IF st.c[c].connect_type = CONNECT_TYPE_SERVER
     THEN ch_free_accept_sock_context(ch_remove_connection(closed, c), c)
     ELSE closed

\* deal_connect_events: an event of a context of the list
ch_deal_connect_events ==
  /\ Ready
  /\ \E c \in ChContexts :
       /\ InList(c) /\ ch.c[c].sock
       /\ \/ ch' = Settle(ch_release_connection(ch, c))
          \/ \E o \in EventOutcomes(ch, c) : ch' = Settle(ch_connection_handler(ch, c, o))
  /\ UNCHANGED << niov, hs, ctl, rd, rr, dm, sw, ins, lk, mt >>

\* bTimeout of close_timeout_connections
ChannelTimeout(st, c) ==
  LET e == st.c[c]
  IN /\ e.need_check_timeout /\ e.sock
     /\ IF e.state = STATE_RECV_DATA THEN st.clock - e.server_start_time >= RecvTimeout
        ELSE e.state = STATE_CONNECTING
               /\ st.clock - e.connect_start_time >= ConnectTimeout

FirstN(q, n) == IF Len(q) <= n THEN q ELSE SubSeq(q, 1, n)

\* timeoutConnectContexts: the contexts of the list that timed out, in the order
\* of the list, until MAX_TIMEOUT_SOCKET_COUNT are found
timeoutConnectContexts(st) ==
  FirstN(SelectSeq(st.connections, LAMBDA c : ChannelTimeout(st, c)),
         MAX_TIMEOUT_SOCKET_COUNT)

\* release_connection(pSockContext, false) for each of timeoutConnectContexts,
\* the caller holding connect_thread_context.lock: free_accept_sock_context
\* acquires the lock again, after which the thread hangs or goes on (relock)
RECURSIVE ReleaseTimedOut(_, _, _)
ReleaseTimedOut(st, q, relock) ==
  IF q = << >> THEN st
  ELSE LET c == Head(q)
           closed == ch_close_connection(st, c)
       IN IF st.c[c].connect_type # CONNECT_TYPE_SERVER
          THEN ReleaseTimedOut(closed, Tail(q), relock)
          ELSE IF relock = HANG
          THEN [ch_remove_connection(closed, c) EXCEPT !.hung = TRUE]
          ELSE ReleaseTimedOut(
                 ch_free_accept_sock_context(ch_remove_connection(closed, c), c),
                 Tail(q), relock)

\* close_timeout_connections
ch_close_timeout_connections ==
  /\ Ready
  /\ timeoutConnectContexts(ch) # << >>
  /\ \E relock \in { HANG, PROCEED } :
       ch' = Settle(ReleaseTimedOut(ch, timeoutConnectContexts(ch), relock))
  /\ UNCHANGED << niov, hs, ctl, rd, rr, dm, sw, ins, lk, mt >>

\* close_socket of the worker: the context leaves the worker; a server-role
\* context goes back to the accept_free_list
ch_close_socket ==
  /\ Ready
  /\ \E c \in ch.worker :
       LET left == [ch_close_connection(ch, c) EXCEPT !.worker = @ \ { c }]
       IN ch' = Settle(IF ch.c[c].connect_type = CONNECT_TYPE_SERVER
                       THEN ch_free_accept_sock_context(left, c) ELSE left)
  /\ UNCHANGED << niov, hs, ctl, rd, rr, dm, sw, ins, lk, mt >>

ch_tick ==
  /\ ch # NoChannel
  /\ ch.clock < ChannelClock
  /\ ch' = [ch EXCEPT !.clock = @ + 1]
  /\ UNCHANGED << niov, hs, ctl, rd, rr, dm, sw, ins, lk, mt >>

InitChannel ==
  /\ InitNio(0, FALSE, 0, 0, 0)
  /\ hs = NoHandshake /\ ctl = NoController /\ rd = NoReader /\ rr = NoArray
  /\ dm = NoDispatch /\ sw = NoPass /\ ins = NoInsert /\ lk = NoLocks /\ mt = NoTable
  /\ \E types \in [ChContexts -> { CONNECT_TYPE_CLIENT, CONNECT_TYPE_SERVER }] :
       ch = [clock |-> 0, hung |-> FALSE, connections |-> << >>,
             accept_free_list |->
               SelectSeq([k \in ChContexts |-> k],
                         LAMBDA c : types[c] = CONNECT_TYPE_SERVER),
             worker |-> {},
             c |-> [c \in ChContexts |-> [NoContext EXCEPT !.connect_type = types[c]]]]

NextChannel ==
  \/ ch_make_connection
  \/ ch_do_reconnect
  \/ ch_deal_income_connection
  \/ ch_deal_connect_events
  \/ ch_close_timeout_connections
  \/ ch_close_socket
  \/ ch_tick

SpecChannel == InitChannel /\ [][NextChannel]_vars

\* ---------------------------------------------------------------- C26
\* C26: a pass of close_timeout_connections releases every context it finds
\* timed out (Connecting for cluster_connect_timeout, RecvData for 1 s), up to
\* MAX_TIMEOUT_SOCKET_COUNT of them: after the pass the socket of each is closed.
C26_TimedOutAreClosed ==
  [][ch_close_timeout_connections =>
       \A c \in Range(timeoutConnectContexts(ch)) : ~ch'.c[c].sock]_vars

\* ---------------------------------------------------------------- C30
\* the hello names the func_id the role expects, has the data_len of a
\* HelloMessage and a major in the range of this node
RightHello(connect_type, hello) ==
  /\ hello # NoMsg
  /\ hello.func_id = IF connect_type = CONNECT_TYPE_CLIENT
                     THEN FUNC_ID_CLUSTER_HELLO_RESPONSE
                     ELSE FUNC_ID_CLUSTER_HELLO_REQUEST
  /\ hello.data_len = HelloMessageSize
  /\ \E major \in hello.min_major..hello.major :
        major >= ThisBuild.min_major /\ major <= ThisBuild.major

\* C30: a context is with its worker only after its handshake, in protocol
\* order: a client-role context sent the whole HELLO_REQUEST and then received
\* and accepted a HELLO_RESPONSE, a server-role context received and accepted a
\* HELLO_REQUEST and then sent the whole HELLO_RESPONSE; the hello it accepted
\* had the func_id of its role, the right data_len and a compatible version.
C30_HandOffAfterHandshake ==
  ch # NoChannel =>
    \A c \in ch.worker :
       /\ ch.c[c].steps = IF ch.c[c].connect_type = CONNECT_TYPE_CLIENT
                          THEN << "sent", "accepted" >>
                          ELSE << "accepted", "sent" >>
       /\ RightHello(ch.c[c].connect_type, ch.c[c].hello)

\* a client-role and a server-role context are both with the worker
C30_Witness ==
  /\ ch # NoChannel
  /\ \E c1 \in ch.worker, c2 \in ch.worker :
        /\ ch.c[c1].connect_type = CONNECT_TYPE_CLIENT
        /\ ch.c[c2].connect_type = CONNECT_TYPE_SERVER

\* ------------------------------------------------- the dispatch of a frame
\* deal_message (nio.cc) for one socket: the send queues as sequences from the
\* head, each message with its func_id, session id and whether bytes of it were
\* sent; the ping fields; and the calls the last deal_message made to the
\* session resolver, the callback and push_in_message.
MaxSession == 2               \* session ids of the frames of the peer
MaxDispatch == 3              \* messages in the send queues at a time

GET_RESPONSE_SESSION == "get_response_session"
CLUSTER_MSG_DEAL_FUNC == "cluster_msg_deal_func"
PUSH_IN_MESSAGE == "push_in_message"

Sessions == 1..MaxSession
OwnSession == 0

DispatchFrames ==
  [func_id : { FUNC_ID_CLUSTER_PING_REQUEST, FUNC_ID_CLUSTER_PING_RESPONSE, FUNC_ID_USER },
   session_id : Sessions]

\* what get_response_session returns: an error, or call_func true or false
ResolverOutcomes == { ENOENT, "call_func", "queue" }

QueuedCount(queues) == SumSeq([p \in 1..PRIORITY_COUNT |-> Len(queues[p - 1])])

\* insert_into_send_queue_head on a queue given from its head
InsertHeadSeq(q, msg) ==
  IF q = << >> THEN << msg >>
  ELSE IF ~Head(q).started THEN << msg >> \o q
  ELSE << Head(q), msg >> \o Tail(q)

\* a response that carries the session id of this node
PingResponseOwn(pHeader) ==
  [func_id |-> FUNC_ID_CLUSTER_PING_RESPONSE, session_id |-> OwnSession, started |-> FALSE]

\* cluster_send_msg_internal_ex(&pHeader->session_id, pSockContext,
\* FUNC_ID_CLUSTER_PING_RESPONSE, NULL, 0, ...): the message built
PingResponse(pHeader) ==
  [func_id |-> FUNC_ID_CLUSTER_PING_RESPONSE, session_id |-> pHeader.session_id,
   started |-> FALSE]

\* deal_message for the frame pHeader
dm_deal_message_of(st, pHeader, resolved) ==
  LET handled == [st EXCEPT !.frame = pHeader, !.calls = << >>, !.result = OK]
  IN IF pHeader.func_id = FUNC_ID_CLUSTER_PING_REQUEST
     THEN [handled EXCEPT !.send_queues[PRIORITY_HIGH] =
                             InsertHeadSeq(@, PingResponse(pHeader))]
     ELSE IF pHeader.func_id = FUNC_ID_CLUSTER_PING_RESPONSE
     THEN [handled EXCEPT !.ping_start_time = 0, !.ping_fail_count = 0]
     ELSE IF resolved = ENOENT
     THEN [handled EXCEPT !.calls = << GET_RESPONSE_SESSION >>, !.result = ENOENT]
     ELSE IF resolved = "call_func"
     THEN [handled EXCEPT !.calls = << GET_RESPONSE_SESSION, CLUSTER_MSG_DEAL_FUNC >>]
     ELSE [handled EXCEPT !.calls = << GET_RESPONSE_SESSION, PUSH_IN_MESSAGE >>]

dm_deal_message ==
  /\ dm # NoDispatch
  /\ QueuedCount(dm.send_queues) < MaxDispatch
  /\ \E pHeader \in DispatchFrames, resolved \in ResolverOutcomes :
       dm' = dm_deal_message_of(dm, pHeader, resolved)
  /\ UNCHANGED << niov, hs, ctl, rd, rr, sw, ch, ins, lk, mt >>

\* push_to_send_queue of a producer: a message at the tail of a queue
dm_push_to_send_queue ==
  /\ dm # NoDispatch
  /\ QueuedCount(dm.send_queues) < MaxDispatch
  /\ \E priority \in Priorities, session_id \in Sessions :
       dm' = [dm EXCEPT !.send_queues[priority] =
                           Append(@, [func_id |-> FUNC_ID_USER, session_id |-> session_id,
                                      started |-> FALSE])]
  /\ UNCHANGED << niov, hs, ctl, rd, rr, sw, ch, ins, lk, mt >>

\* send_ping_message of schedule_sock_write: a PING_REQUEST at the head of the
\* high priority queue, ping_start_time set
dm_send_ping_message ==
  /\ dm # NoDispatch
  /\ QueuedCount(dm.send_queues) < MaxDispatch
  /\ dm.ping_start_time = 0
  /\ dm' = [dm EXCEPT !.ping_start_time = 1,
                      !.send_queues[PRIORITY_HIGH] =
                         InsertHeadSeq(@, [func_id |-> FUNC_ID_CLUSTER_PING_REQUEST,
                                           session_id |-> OwnSession, started |-> FALSE])]
  /\ UNCHANGED << niov, hs, ctl, rd, rr, sw, ch, ins, lk, mt >>

\* schedule_sock_write finds the ping timed out
dm_ping_timeout ==
  /\ dm # NoDispatch
  /\ dm.ping_start_time > 0
  /\ dm.ping_fail_count < cluster_ping_retries
  /\ dm' = [dm EXCEPT !.ping_start_time = 0, !.ping_fail_count = @ + 1]
  /\ UNCHANGED << niov, hs, ctl, rd, rr, sw, ch, ins, lk, mt >>

\* deal_write_event: the head of the first queue that is not empty is sent in
\* part or as a whole
dm_deal_write_event ==
  /\ dm # NoDispatch
  /\ \E priority \in Priorities, whole \in BOOLEAN :
       /\ dm.send_queues[priority] # << >>
       /\ \A p \in Priorities : p < priority => dm.send_queues[p] = << >>
       /\ dm' = [dm EXCEPT !.send_queues[priority] =
                             IF whole THEN Tail(@)
                             ELSE << [Head(@) EXCEPT !.started = TRUE] >> \o Tail(@)]
  /\ UNCHANGED << niov, hs, ctl, rd, rr, sw, ch, ins, lk, mt >>

InitDispatch ==
  /\ InitNio(0, FALSE, 0, 0, 0)
  /\ hs = NoHandshake /\ ctl = NoController /\ rd = NoReader /\ rr = NoArray
  /\ sw = NoPass /\ ch = NoChannel /\ ins = NoInsert /\ lk = NoLocks /\ mt = NoTable
  /\ dm = [send_queues |-> [p \in Priorities |-> << >>],
           ping_start_time |-> 0, ping_fail_count |-> 0,
           frame |-> NoMsg, calls |-> << >>, result |-> OK]

NextDispatch ==
  \/ dm_deal_message
  \/ dm_push_to_send_queue
  \/ dm_send_ping_message
  \/ dm_ping_timeout
  \/ dm_deal_write_event

SpecDispatch == InitDispatch /\ [][NextDispatch]_vars

\* ---------------------------------------------------------------- C23
\* the queue after is the queue before with msg added, nothing that was not
\* started ahead of it
AddedAtHead(before, after, msg) ==
  \E k \in 1..Len(after) :
     /\ after[k] = msg
     /\ RemoveAt(after, k) = before
     /\ \A j \in 1..(k - 1) : after[j].started

\* C23: deal_message answers a PING_REQUEST by putting exactly one PING_RESPONSE
\* with the session id of the request at the head of the high priority queue,
\* and calls neither the session resolver nor the callback nor push_in_message
\* for a PING_REQUEST or a PING_RESPONSE.
C23_PingAnsweredInline ==
  [][dm_deal_message =>
       LET f == dm'.frame
       IN /\ f.func_id = FUNC_ID_CLUSTER_PING_REQUEST =>
               /\ AddedAtHead(dm.send_queues[PRIORITY_HIGH],
                              dm'.send_queues[PRIORITY_HIGH],
                              [func_id |-> FUNC_ID_CLUSTER_PING_RESPONSE,
                               session_id |-> f.session_id, started |-> FALSE])
               /\ \A p \in Priorities \ { PRIORITY_HIGH } :
                     dm'.send_queues[p] = dm.send_queues[p]
               /\ dm'.calls = << >>
          /\ f.func_id = FUNC_ID_CLUSTER_PING_RESPONSE =>
               /\ dm'.send_queues = dm.send_queues
               /\ dm'.calls = << >>]_vars

\* a PING_REQUEST was answered while a message of the high priority queue was
\* partly sent: the response is behind it
C23_Witness ==
  /\ dm # NoDispatch
  /\ dm.frame # NoMsg
  /\ dm.frame.func_id = FUNC_ID_CLUSTER_PING_REQUEST
  /\ Len(dm.send_queues[PRIORITY_HIGH]) >= 2
  /\ dm.send_queues[PRIORITY_HIGH][1].started
  /\ dm.send_queues[PRIORITY_HIGH][2] =
        [func_id |-> FUNC_ID_CLUSTER_PING_RESPONSE,
         session_id |-> dm.frame.session_id, started |-> FALSE]

\* ---------------------------------------------------------------- C28
\* the bytes a step wrote to the socket
WrittenByStep == SumSeq([m \in MsgIds |-> wired'[m] - wired[m]])

\* what deal_write_event returns, by where the step leaves the worker
ReturnedByStep ==
  IF pc' = "complete" THEN wr'.result
  ELSE IF pc' = "write" THEN OK
  ELSE IF pc' = "poll" THEN EAGAIN
  ELSE EIO

\* a deal_write_event that wrote bytes returns 0 only after it wrote the whole
\* batch and a stop condition ended the assembly, and EAGAIN otherwise; with
\* nothing queued it returns EAGAIN
ZeroOnlyAfterFullBatch ==
  [][deal_write_event =>
       /\ WrittenByStep > 0 =>
            ReturnedByStep = IF WrittenByStep = Assemble.total_bytes /\ Assemble.fetch_done
                             THEN OK ELSE EAGAIN
       /\ Queued = { } => ReturnedByStep = EAGAIN]_vars

NumSocks == 3                 \* socket contexts of the worker
PassClock == 2                \* last clock value (SpecPass)
SendWait == 1                 \* scaled send_wait_time

PING_TIMEOUT == "ping timeout"
SKIPPED == "skipped"

Socks == 1..NumSocks

\* what the pass meets at a socket it does not skip: ping_fail_count beyond
\* cluster_ping_retries, or the result that ends the loop over deal_write_event
PassResults == { PING_TIMEOUT, EAGAIN, ECONNRESET, EIO }

\* a list of sockets to close without a limit
FailListHasRoomAlways(fail_count) == TRUE

\* fail_count < MAX_SOCK_CONTEXT_COUNT
FailListHasRoom(fail_count) == fail_count < MAX_SOCK_CONTEXT_COUNT

\* the for loop of schedule_sock_write from active_sockets[i] on; t_now is the
\* local current_time
RECURSIVE PassLoop(_, _, _, _)
PassLoop(st, i, t_now, met) ==
  IF i > Len(st.active_sockets) THEN st
  ELSE LET s == st.active_sockets[i]
           result == IF t_now < st.next_write_time[s] THEN SKIPPED ELSE met[s]
           seen == [st EXCEPT !.result[s] = result]
           listed == IF FailListHasRoom(Len(st.failSockContexts))
                     THEN [seen EXCEPT !.failSockContexts = Append(@, s)]
                     ELSE seen
       IN PassLoop(IF result = SKIPPED THEN seen
                   ELSE IF result = EAGAIN
                   THEN [seen EXCEPT !.next_write_time[s] = t_now + SendWait]
                   ELSE listed,
                   i + 1, t_now, met)

\* close_socket for each of failSockContexts; after a detach that fails the
\* socket stays in active_sockets
RECURSIVE CloseFailed(_, _, _)
CloseFailed(st, q, detach) ==
  IF q = << >> THEN st
  ELSE CloseFailed(IF detach[Head(q)]
                   THEN [st EXCEPT !.active_sockets = Without(@, Head(q))]
                   ELSE st,
                   Tail(q), detach)

\* no pass has just run
Idle(st) ==
  [st EXCEPT !.current_time = 0, !.result = [s \in Socks |-> ""],
             !.detach = [s \in Socks |-> TRUE], !.failSockContexts = << >>]

\* what a pass can meet at the sockets: one of PassResults at each socket of
\* active_sockets that is due
PassInputs(st) ==
  { met \in [Socks -> PassResults \cup { SKIPPED }] :
      \A s \in Socks :
         met[s] = SKIPPED <=> ~(InSeq(st.active_sockets, s)
                                 /\ st.clock >= st.next_write_time[s]) }

sw_schedule_sock_write ==
  /\ sw # NoPass
  /\ sw.active_sockets # << >>
  /\ \E met \in PassInputs(sw), detach \in [Socks -> BOOLEAN] :
       /\ \A s \in Socks : met[s] \in { EAGAIN, SKIPPED } => detach[s]
       /\ \E looped \in { PassLoop([Idle(sw) EXCEPT !.detach = detach,
                                                     !.current_time = sw.clock],
                                     1, sw.clock, met) } :
          \E closed \in { CloseFailed(looped, looped.failSockContexts, detach) } :
             sw' = [closed EXCEPT
                      !.detach = [s \in Socks |->
                                    InSeq(looped.failSockContexts, s) => detach[s]],
                      !.next_write_time = [s \in Socks |->
                                    IF InSeq(closed.active_sockets, s) THEN @[s] ELSE 0]]
  /\ UNCHANGED << niov, hs, ctl, rd, rr, dm, ch, ins, lk, mt >>

\* nio_add_to_epoll: a socket is added to active_sockets
sw_nio_add_to_epoll ==
  /\ sw # NoPass
  /\ \E s \in Socks :
       /\ ~InSeq(sw.active_sockets, s)
       /\ sw' = [Idle(sw) EXCEPT !.active_sockets = Append(@, s),
                                 !.next_write_time[s] = sw.clock + SendWait]
  /\ UNCHANGED << niov, hs, ctl, rd, rr, dm, ch, ins, lk, mt >>

sw_tick ==
  /\ sw # NoPass
  /\ sw.clock < PassClock
  /\ sw' = [Idle(sw) EXCEPT !.clock = @ + 1]
  /\ UNCHANGED << niov, hs, ctl, rd, rr, dm, ch, ins, lk, mt >>

InitPass ==
  /\ InitNio(0, FALSE, 0, 0, 0)
  /\ hs = NoHandshake /\ ctl = NoController /\ rd = NoReader /\ rr = NoArray
  /\ dm = NoDispatch /\ ch = NoChannel /\ ins = NoInsert /\ lk = NoLocks /\ mt = NoTable
  /\ sw = [clock |-> 0, active_sockets |-> << >>,
           next_write_time |-> [s \in Socks |-> 0],
           current_time |-> 0, result |-> [s \in Socks |-> ""],
           detach |-> [s \in Socks |-> TRUE], failSockContexts |-> << >>]

NextPass ==
  \/ sw_schedule_sock_write
  \/ sw_nio_add_to_epoll
  \/ sw_tick

SpecPass == InitPass /\ [][NextPass]_vars

\* ---------------------------------------------------------------- C29
\* the step is a pass: only a pass leaves results
PassStep == \E s \in Socks : sw'.result[s] # ""

WriteFailed(result) == result \in { ECONNRESET, EIO }
PassFailed(result) == WriteFailed(result) \/ result = PING_TIMEOUT

\* the sockets ahead of s in active_sockets that the pass found failed
FailedAhead(s) ==
  Cardinality({ t \in Socks :
     /\ InSeq(sw.active_sockets, t)
     /\ PassFailed(sw'.result[t])
     /\ \E i, j \in 1..Len(sw.active_sockets) :
           i < j /\ sw.active_sockets[i] = t /\ sw.active_sockets[j] = s })

\* a socket the pass wrote was due, and after EAGAIN it waits send_wait_time
\* from the time of the pass and stays open
DueAndDelayed(s) ==
  /\ sw'.result[s] # SKIPPED => sw.clock >= sw.next_write_time[s]
  /\ sw'.result[s] = EAGAIN =>
        /\ sw'.next_write_time[s] = sw.clock + SendWait
        /\ InSeq(sw'.active_sockets, s)

\* C29: in a pass a socket whose deal_write_event returns EAGAIN gets
\* next_write_time = now + send_wait_time and stays open; a socket whose
\* deal_write_event returns another error is closed by the end of the pass when
\* fewer than MAX_SOCK_CONTEXT_COUNT sockets ahead of it failed in the pass and
\* its detach from the poller succeeds, and stays open for a later pass
\* otherwise; no socket is written before its next_write_time.
C29_FailedClosedWhileListHasRoom ==
  [][PassStep =>
       \A s \in Range(sw.active_sockets) :
          /\ DueAndDelayed(s)
          /\ WriteFailed(sw'.result[s]) =>
                (InSeq(sw'.active_sockets, s) <=>
                   ~(FailedAhead(s) < MAX_SOCK_CONTEXT_COUNT /\ sw'.detach[s]))]_vars

\* a pass found more sockets failed than failSockContexts holds: one whose
\* write failed, and whose detach would have succeeded, is still open
C29_Witness ==
  /\ sw # NoPass
  /\ Cardinality({ s \in Socks : PassFailed(sw.result[s]) }) > MAX_SOCK_CONTEXT_COUNT
  /\ \E s \in Socks :
        /\ WriteFailed(sw.result[s]) /\ sw.detach[s]
        /\ InSeq(sw.active_sockets, s)
        /\ \E t \in Socks : sw.result[t] = EAGAIN /\ sw.next_write_time[t] > sw.current_time

\* C29 as stated: every socket whose deal_write_event returns another error is
\* closed by the end of the pass, however many sockets fail in it.
C29_EveryFailedClosed ==
  [][PassStep =>
       \A s \in Range(sw.active_sockets) :
          /\ DueAndDelayed(s)
          /\ WriteFailed(sw'.result[s]) => ~InSeq(sw'.active_sockets, s)]_vars

\* ------------------------------------- a head insertion from another thread
\* insert_into_send_queue_head is called in src by the worker alone
\* (send_ping_message and deal_message).  Here a thread other than the worker
\* calls it, at any position of the worker; ins records for the message whether
\* the worker was then inside deal_write_event (in this model: between its
\* writev and its completion step).
SAFE == "safe"
RACED == "raced"

insert_into_send_queue_head ==
  /\ Active
  /\ budget # 0
  /\ Free # { }
  /\ budget' = Spend
  /\ SendHead(FUNC_ID_USER)
  /\ ins' = [ins EXCEPT ![NewMsg] = IF pc = "complete" THEN RACED ELSE SAFE]
  /\ stats' = Bump(stats, "push_msg_count", 1)
  /\ UNCHANGED << sock, version, queue_index, next_write_time, pingv, connect_state,
                  active_sockets, pc, current_time, wr, clr, now, net_in, peer_reqs,
                  connected_list, session, cfgv, histv, hs, ctl, rd, rr, dm, sw, ch,
                  lk, mt >>

NextInsert ==
  \/ Next
  \/ insert_into_send_queue_head

SpecInsert == Init /\ [][NextInsert]_vars

\* ------------------------------------------------------------ batch limits
\* The worker and the producers over a context that is active: the producers
\* queue objects of up to BatchDataLen bytes in blocks of one byte and inline
\* buffers, writev takes any part of a batch.
BatchDataLen == 3             \* largest data_len of an object (SpecBatch)
BatchPush == 3                \* enqueue attempts of the producers (SpecBatch)

BatchMessages ==
  { [h |-> [func_id |-> FUNC_ID_USER, data_len |-> n, aligned_data_len |-> BYTE_ALIGN(n),
            data_type |-> DATA_TYPE_OBJECT],
     b |-> [k \in 1..n |-> 1]] : n \in 1..BatchDataLen }
  \cup
  { [h |-> [func_id |-> FUNC_ID_USER, data_len |-> n, aligned_data_len |-> BYTE_ALIGN(n),
            data_type |-> DATA_TYPE_BUFFER],
     b |-> << >>] : n \in 0..1 }

batch_push ==
  /\ session >= 0
  /\ \E priority \in Priorities, u \in BatchMessages :
        push_to_send_queue(priority, session, u.h, u.b)

\* nio_add_to_epoll has handed the context to its worker and a session holds it
InitBatch ==
  /\ sock = 0
  /\ version = PRIORITY_COUNT
  /\ queue_index = 0
  /\ head = [p \in Priorities |-> NULL]
  /\ tail = [p \in Priorities |-> NULL]
  /\ next = [m \in MsgIds |-> NULL]
  /\ bytes_sent = [m \in MsgIds |-> 0]
  /\ hdr = [m \in MsgIds |-> NoHeader]
  /\ blocks = [m \in MsgIds |-> << >>]
  /\ next_write_time = 0
  /\ next_ping_time = 0
  /\ ping_start_time = 0
  /\ ping_fail_count = 0
  /\ connect_state = "Active"
  /\ active_sockets = << 1 >>
  /\ stats = NoStats
  /\ pc = "sched"
  /\ current_time = 0
  /\ wr = NoWr
  /\ clr = NoClr
  /\ now = 1
  /\ net_in = << >>
  /\ peer_reqs = 0
  /\ connected_list = << 1 >>
  /\ session = PRIORITY_COUNT
  /\ budget = BatchPush
  /\ stat_on = FALSE
  /\ cluster_ping_send_interval = 0
  /\ send_wait_time = 0
  /\ max_data_len = BatchDataLen
  /\ fate = [m \in MsgIds |-> "free"]
  /\ wired = [m \in MsgIds |-> 0]
  /\ wire_ok = TRUE
  /\ ord = [p \in Priorities |-> << >>]
  /\ fifo_ok = TRUE
  /\ prio_inv = FALSE
  /\ close_at = NoClose
  /\ hs = NoHandshake
  /\ ctl = NoController
  /\ rd = NoReader
  /\ rr = NoArray
  /\ dm = NoDispatch
  /\ sw = NoPass
  /\ ch = NoChannel
  /\ ins = NoInsert /\ lk = NoLocks /\ mt = NoTable

NextBatch ==
  \/ batch_push
  \/ schedule_sock_write
  \/ deal_write_event
  \/ deal_write_event_complete
  \/ work_thread_loop

SpecBatch == InitBatch /\ [][NextBatch]_vars

\* every index of msg_indexes names a message of send_msgs
IndexesInside(a) ==
  \A k \in 1..Len(a.vec) :
     /\ a.vec[k].priority \in Priorities
     /\ a.vec[k].index >= 0
     /\ a.vec[k].index < Len(a.send_msgs[a.vec[k].priority])

\* C32: a batch of deal_write_event has at most WRITEV_ITEM_ONCE messages and at
\* most WRITEV_ARRAY_SIZE iovec entries, whatever the queues hold, and the
\* indexes into write_vec, msg_indexes, send_msgs and done_msgs stay inside the
\* arrays.
C32_BatchInsideArrays ==
  \A a \in { Assemble } :
     /\ a.total_msg_count <= WRITEV_ITEM_ONCE
     /\ Len(a.vec) <= WRITEV_ARRAY_SIZE
     /\ \A p \in Priorities : Len(a.send_msgs[p]) <= WRITEV_ITEM_ONCE
     /\ IndexesInside(a)
     /\ \A p \in Priorities : Len(wr.done[p]) <= WRITEV_ITEM_ONCE

\* a batch that fills write_vec: the last message took the slots get_iovec left
\* it and its padding
C32_Witness ==
  /\ pc = "write"
  /\ Len(Assemble.vec) = WRITEV_ARRAY_SIZE
  /\ Assemble.total_msg_count = WRITEV_ITEM_ONCE
  /\ Assemble.vec[WRITEV_ARRAY_SIZE].buff_type = BUFF_TYPE_PADDING
  /\ Assemble.vec[WRITEV_ARRAY_SIZE - 1].buff_type = BUFF_TYPE_DATA
  /\ hdr[Assemble.vec[WRITEV_ARRAY_SIZE].m].data_type = DATA_TYPE_OBJECT

\* ------------------------------------------------------------ C36
\* the bytes the step put on the wire and the bytes it added to bytes_sent
Written == SumSeq([m \in 1..MaxMsgs |-> wired'[m] - wired[m]])
Attributed == SumSeq([m \in 1..MaxMsgs |-> bytes_sent'[m] - bytes_sent[m]])

\* the payload bytes among the first bs bytes of the frame of m
PayloadSent(m, bs) ==
  IF bs <= MSG_HEADER_LENGTH THEN 0
  ELSE IF bs - MSG_HEADER_LENGTH >= hdr[m].data_len THEN hdr[m].data_len
  ELSE bs - MSG_HEADER_LENGTH

\* the messages of the batch up to the first that is not done are done and
\* wholly written, the later ones got nothing
InIovecOrder(a) ==
  LET bm == BatchMsgs(a.vec, 1)
  IN \A k \in 1..Len(bm) :
        IF bm[k] \in DoneSet'
        THEN wired'[bm[k]] = Total(bm[k])
        ELSE \A j \in (k + 1)..Len(bm) :
                /\ bm[j] \notin DoneSet'
                /\ wired'[bm[j]] = wired[bm[j]]
                /\ bytes_sent'[bm[j]] = bytes_sent[bm[j]]

\* what an object lost from its block chain is the payload added to bytes_sent
ObjectsConsumed ==
  \A m \in MsgIds :
     hdr[m].data_type = DATA_TYPE_OBJECT =>
        SumSeq(blocks[m]) - SumSeq(blocks'[m]) =
           PayloadSent(m, bytes_sent'[m]) - PayloadSent(m, bytes_sent[m])

\* a message that is queued and not done is resumed where the wire stopped
ResumedAtBytesSent ==
  /\ wire_ok
  /\ \A m \in Queued \ DoneSet : bytes_sent[m] = wired[m]

\* C36 as stated: a writev that returns n > 0 adds n to the bytes_sent of the
\* messages of the batch, in iovec order; an object's block chain loses the
\* payload bytes attributed; a resumed message restarts at offset bytes_sent.
C36_WrittenIsAttributed ==
  /\ []ResumedAtBytesSent
  /\ [][(pc = "write" /\ Written > 0) =>
          \A a \in { Assemble } :
             /\ Attributed = Written
             /\ InIovecOrder(a)
             /\ ObjectsConsumed]_vars

\* C36, amended: a writev that returns n > 0 and is short of the batch, or
\* leaves the last object of the batch incomplete, adds n to the bytes_sent of
\* the messages of the batch, in iovec order, and an object's block chain loses
\* the payload bytes attributed; a writev that takes a whole batch whose last
\* message is complete leaves bytes_sent and the block chains as they were and
\* takes every message of the batch for done. A message that stays queued is
\* resumed at offset bytes_sent.
C36_WrittenIsAttributedUnlessAllDone ==
  /\ []ResumedAtBytesSent
  /\ [][(pc = "write" /\ Written > 0) =>
          \A a \in { Assemble } :
             /\ IF Written = a.total_bytes /\ a.last_msg_complete
                THEN /\ bytes_sent' = bytes_sent
                     /\ blocks' = blocks
                     /\ Range(BatchMsgs(a.vec, 1)) \subseteq DoneSet'
                ELSE Attributed = Written
             /\ InIovecOrder(a)
             /\ ObjectsConsumed]_vars

\* a write that finished one message and stopped one byte into the payload of
\* an object the next call resumes
C36_Witness ==
  /\ pc = "complete"
  /\ \E m \in Queued \ DoneSet :
        /\ hdr[m].data_type = DATA_TYPE_OBJECT
        /\ bytes_sent[m] = MSG_HEADER_LENGTH + 1
        /\ SumSeq(blocks[m]) = hdr[m].data_len - 1
        /\ hdr[m].data_len > 1
  /\ \E d \in DoneSet : bytes_sent[d] = Total(d)

\* ---------------------------------------------------------------- C24
\* every message that was queued and is not released is reachable from the head
\* of a queue or is held by the completion step
AllReachable == \A m \in MsgIds : fate[m] = "queued" => m \in Queued \cup DoneSet

\* in every queue the messages of which bytes were sent come first
StartedFirst ==
  \A p \in Priorities : \A k \in 1..Len(Queue(p)) :
     bytes_sent[Queue(p)[k]] > 0 =>
        \A j \in 1..(k - 1) : bytes_sent[Queue(p)[j]] > 0

MaxReleased == 1              \* contexts one pass of the reaper or of do_reconnect handles

CONTROLLER_LOCK == [kind |-> "controller", index |-> 0]
WORKER_LOCK == [kind |-> "worker", index |-> 0]
QueueLock(p) == [kind |-> "queue", index |-> p]
Locks == { CONTROLLER_LOCK, WORKER_LOCK } \cup { QueueLock(p) : p \in Priorities }

CONNECT_THREAD == "connect"
WORK_THREAD == "worker"
CALLER_THREAD == "caller"
Threads == { CONNECT_THREAD, WORK_THREAD, CALLER_THREAD }
NOBODY == "nobody"

\* the order of the locks: controller, then per-worker, then per-queue
Rank(l) == CASE l.kind = "controller" -> 0 [] l.kind = "worker" -> 1 [] OTHER -> 2

ink_mutex_acquire(l) == << [op |-> "acquire", lock |-> l] >>
ink_mutex_release(l) == << [op |-> "release", lock |-> l] >>

\* the lock and unlock of the queue of each priority of ps, one after the other
RECURSIVE EachQueue(_)
EachQueue(ps) ==
  IF ps = << >> THEN << >>
  ELSE ink_mutex_acquire(QueueLock(Head(ps))) \o ink_mutex_release(QueueLock(Head(ps)))
         \o EachQueue(Tail(ps))

AllPriorities == [i \in 1..PRIORITY_COUNT |-> i - 1]

\* clear_send_queue
lk_clear_send_queue == EachQueue(AllPriorities)

\* add_to_active_sockets takes the controller lock inside the worker lock
lk_add_to_active_sockets_nested ==
  ink_mutex_acquire(WORKER_LOCK) \o ink_mutex_acquire(CONTROLLER_LOCK)
    \o ink_mutex_release(CONTROLLER_LOCK) \o ink_mutex_release(WORKER_LOCK)

\* add_to_active_sockets
lk_add_to_active_sockets == ink_mutex_acquire(WORKER_LOCK) \o ink_mutex_release(WORKER_LOCK)

\* remove_from_active_sockets
lk_remove_from_active_sockets ==
  ink_mutex_acquire(WORKER_LOCK) \o ink_mutex_release(WORKER_LOCK)

\* add_machine_sock_context / remove_machine_sock_context: nothing when the
\* machine has no slot, else the lock around the change of connected_list
lk_machine_sock_context(has_slot) ==
  IF has_slot THEN ink_mutex_acquire(CONTROLLER_LOCK) \o ink_mutex_release(CONTROLLER_LOCK)
  ELSE << >>

\* nio_add_to_epoll
lk_nio_add_to_epoll(has_slot, attached) ==
  lk_clear_send_queue \o lk_machine_sock_context(has_slot)
    \o (IF attached THEN lk_add_to_active_sockets ELSE lk_machine_sock_context(has_slot))

\* remove_connection that leaves the lock alone on both paths without needLock
lk_remove_connection_unified(needLock, found) ==
  IF needLock THEN ink_mutex_acquire(CONTROLLER_LOCK) \o ink_mutex_release(CONTROLLER_LOCK)
  ELSE << >>

\* remove_connection: the not-found path releases whatever needLock is
lk_remove_connection(needLock, found) ==
  (IF needLock THEN ink_mutex_acquire(CONTROLLER_LOCK) ELSE << >>)
    \o (IF ~found THEN ink_mutex_release(CONTROLLER_LOCK)
        ELSE IF needLock THEN ink_mutex_release(CONTROLLER_LOCK) ELSE << >>)

\* free_accept_sock_context, alloc_accept_sock_context, alloc_connect_sock_context,
\* alloc_connect_context, find_connection, machine_stop_reconnect: the lock
\* around the whole body
lk_locked == ink_mutex_acquire(CONTROLLER_LOCK) \o ink_mutex_release(CONTROLLER_LOCK)

\* free_accept_sock_context
lk_free_accept_sock_context(has_slot) == IF has_slot THEN lk_locked ELSE << >>

\* free_connect_sock_context
lk_free_connect_sock_context(has_slot, needLock) ==
  IF has_slot /\ needLock THEN lk_locked ELSE << >>

\* release_connection
lk_release_connection(connect_type, needLock, has_slot) ==
  IF connect_type = CONNECT_TYPE_SERVER
  THEN lk_remove_connection(needLock, TRUE) \o lk_free_accept_sock_context(has_slot)
  ELSE << >>

\* result == 0 with events == 0 at the end of the switch of connection_handler:
\* the server has sent its response, or the client has its response
Finishes(connect_type, state) ==
  \/ connect_type = CONNECT_TYPE_SERVER /\ state = STATE_SEND_DATA
  \/ connect_type = CONNECT_TYPE_CLIENT /\ state = STATE_RECV_DATA

\* connection_handler: o.kind is "wait" (events registered, return 0), "done"
\* (the socket call of the state completed) or "fail"; machine_add_connection
\* is nio_add_to_epoll
lk_connection_handler(needLock, connect_type, state, found, o) ==
  IF o.kind = "wait" \/ (o.kind = "done" /\ ~Finishes(connect_type, state)) THEN << >>
  ELSE lk_remove_connection(needLock, found)
         \o (IF o.kind = "done" THEN lk_nio_add_to_epoll(o.has_slot, o.attached) ELSE << >>)
         \o (IF (o.kind = "fail" \/ ~o.attached) /\ connect_type = CONNECT_TYPE_SERVER
             THEN lk_free_accept_sock_context(o.has_slot) ELSE << >>)

\* do_connect: co.connect is "socket_fail", "aton_fail", "connect_fail",
\* "EINPROGRESS" or "connected"
lk_do_connect(needLock, co) ==
  CASE co.connect = "aton_fail" -> lk_remove_connection(needLock, TRUE)
    [] co.connect = "connected" ->
         lk_connection_handler(needLock, CONNECT_TYPE_CLIENT, STATE_CONNECTED, TRUE,
                               co.handler)
    [] OTHER -> << >>

\* make_connection: find_connection, alloc_connect_context, do_connect
lk_make_connection(exists, co) ==
  lk_locked \o (IF exists THEN << >> ELSE lk_locked \o lk_do_connect(TRUE, co))

\* close_socket; machine_remove_connection is remove_machine_sock_context
lk_close_socket(connect_type, detached, has_slot, exists, co) ==
  IF ~detached THEN << >>
  ELSE lk_remove_from_active_sockets \o lk_machine_sock_context(has_slot)
         \o lk_clear_send_queue
         \o (IF connect_type = CONNECT_TYPE_CLIENT THEN lk_make_connection(exists, co)
             ELSE lk_free_accept_sock_context(has_slot))

\* the queues deal_write_event fetches from, in its order
FetchOrder(qi) == (IF qi = 0 THEN << >> ELSE << qi >>) \o AllPriorities

\* deal_write_event: the fetch of the first fetched queues of the order, then
\* the unlinking for the priorities that have done messages
lk_deal_write_event(qi, fetched, done) ==
  EachQueue(FirstN(FetchOrder(qi), fetched))
    \o EachQueue(SelectSeq(AllPriorities, LAMBDA p : p \in done))

\* push_to_send_queue and insert_into_send_queue_head
lk_push_to_send_queue(priority) == EachQueue(<< priority >>)

\* close_timeout_connections for the timed-out contexts of the types given
RECURSIVE ReleaseEach(_)
ReleaseEach(types) ==
  IF types = << >> THEN << >>
  ELSE lk_release_connection(Head(types), FALSE, TRUE) \o ReleaseEach(Tail(types))

lk_close_timeout_connections(types) ==
  ink_mutex_acquire(CONTROLLER_LOCK) \o ReleaseEach(types)
    \o ink_mutex_release(CONTROLLER_LOCK)

\* do_reconnect: for each closed context of the list either do_connect or,
\* without need_reconnect, remove_connection and free_connect_sock_context
RECURSIVE ReconnectEach(_)
ReconnectEach(items) ==
  IF items = << >> THEN << >>
  ELSE (IF Head(items).connect = "release"
        THEN lk_remove_connection(FALSE, TRUE) \o lk_free_connect_sock_context(TRUE, FALSE)
        ELSE lk_do_connect(FALSE, Head(items)))
         \o ReconnectEach(Tail(items))

lk_do_reconnect(items) ==
  ink_mutex_acquire(CONTROLLER_LOCK) \o ReconnectEach(items)
    \o ink_mutex_release(CONTROLLER_LOCK)

\* deal_income_connection: alloc_accept_sock_context, alloc_connect_context,
\* connection_handler in STATE_CONNECTED
lk_deal_income_connection(allocated, o) ==
  lk_locked \o lk_locked
    \o (IF allocated
        THEN lk_connection_handler(TRUE, CONNECT_TYPE_SERVER, STATE_CONNECTED, TRUE, o)
        ELSE lk_free_accept_sock_context(TRUE))

\* machine_make_connections for n contexts
RECURSIVE MakeEach(_, _, _)
MakeEach(n, exists, co) ==
  IF n = 0 THEN << >>
  ELSE lk_locked \o lk_make_connection(exists, co) \o MakeEach(n - 1, exists, co)

\* ------------------------------------------------ the inputs of the calls
\* a socket context that is handed off or closed came from a freelist of its
\* machine, so the machine has its slot: has_slot is TRUE
HandlerResults ==
  { [kind |-> "wait", has_slot |-> TRUE, attached |-> TRUE],
    [kind |-> "fail", has_slot |-> TRUE, attached |-> TRUE] }
    \cup { [kind |-> "done", has_slot |-> TRUE, attached |-> a] : a \in BOOLEAN }

ConnectResults ==
  { [connect |-> k, handler |-> CHOOSE o \in HandlerResults : o.kind = "wait"] :
      k \in { "socket_fail", "aton_fail", "connect_fail", "EINPROGRESS" } }
    \cup { [connect |-> "connected", handler |-> o] : o \in HandlerResults }

ReconnectItems ==
  ConnectResults \cup { [connect |-> "release",
                         handler |-> CHOOSE o \in HandlerResults : o.kind = "wait"] }

UpTo(S, n) == UNION { [1..k -> S] : k \in 1..n }

\* ------------------------------------------------------------- the steps
Resting(t) == lk # NoLocks /\ lk.todo[t] = << >> /\ ~lk.hung[t]

\* thread t calls the function name, whose lock calls are ops
Begin(t, name, ops) ==
  /\ Resting(t)
  /\ lk' = [lk EXCEPT !.todo[t] = ops, !.path[t] = IF ops = << >> THEN "" ELSE name]
  /\ UNCHANGED << niov, hs, ctl, rd, rr, dm, sw, ch, ins, mt >>

\* the next ink_mutex_acquire or ink_mutex_release of thread t.  A lock held
\* by another thread is waited for.  A lock the thread holds itself is a
\* relock: the thread blocks for ever, or the call returns an error and the
\* thread goes on (relock).  A release of a lock the thread does not hold
\* leaves a free lock free; the lock of another thread it frees or not (freed).
lk_step ==
  /\ lk # NoLocks
  /\ \E t \in Threads :
       /\ lk.todo[t] # << >>
       /\ ~lk.hung[t]
       /\ LET o == Head(lk.todo[t])
              l == o.lock
              rest == Tail(lk.todo[t])
              gone == [lk EXCEPT !.todo[t] = rest,
                                 !.path[t] = IF rest = << >> THEN "" ELSE @]
          IN IF o.op = "acquire"
             THEN IF lk.owner[l] = NOBODY
                  THEN lk' = [gone EXCEPT !.owner[l] = t, !.held[t] = Append(@, l)]
                  ELSE /\ lk.owner[l] = t
                       /\ \E relock \in { HANG, PROCEED } :
                            lk' = IF relock = HANG THEN [lk EXCEPT !.hung[t] = TRUE]
                                  ELSE gone
             ELSE IF lk.owner[l] = t
                  THEN lk' = [gone EXCEPT !.owner[l] = NOBODY,
                                          !.held[t] = Without(@, l)]
                  ELSE IF lk.owner[l] = NOBODY THEN lk' = gone
                  ELSE \E freed \in BOOLEAN :
                         lk' = IF freed
                               THEN [gone EXCEPT !.owner[l] = NOBODY,
                                                 !.held[lk.owner[l]] = Without(@, l)]
                               ELSE gone
  /\ UNCHANGED << niov, hs, ctl, rd, rr, dm, sw, ch, ins, mt >>

\* ------------------------------------------------ the connect thread
\* deal_connect_events: release_connection on an error event, else
\* connection_handler
lk_deal_connect_events ==
  \E connect_type \in { CONNECT_TYPE_CLIENT, CONNECT_TYPE_SERVER } :
     \/ Begin(CONNECT_THREAD, "deal_connect_events",
              lk_release_connection(connect_type, TRUE, TRUE))
     \/ \E state \in { STATE_CONNECTING, STATE_SEND_DATA, STATE_RECV_DATA },
           found \in BOOLEAN, o \in HandlerResults :
          Begin(CONNECT_THREAD, "deal_connect_events",
                lk_connection_handler(TRUE, connect_type, state, found, o))

lk_income_connection ==
  \E allocated \in BOOLEAN, o \in HandlerResults :
     Begin(CONNECT_THREAD, "deal_income_connection",
           lk_deal_income_connection(allocated, o))

lk_timeout_connections ==
  \E types \in UpTo({ CONNECT_TYPE_CLIENT, CONNECT_TYPE_SERVER }, MaxReleased) :
     Begin(CONNECT_THREAD, "close_timeout_connections",
           lk_close_timeout_connections(types))

lk_reconnect ==
  \E items \in UpTo(ReconnectItems, MaxReleased) \cup { << >> } :
     Begin(CONNECT_THREAD, "do_reconnect", lk_do_reconnect(items))

\* ------------------------------------------------------ the worker thread
lk_worker_close_socket ==
  \E connect_type \in { CONNECT_TYPE_CLIENT, CONNECT_TYPE_SERVER },
     detached, exists \in BOOLEAN, co \in ConnectResults :
     Begin(WORK_THREAD, "close_socket",
           lk_close_socket(connect_type, detached, TRUE, exists, co))

lk_worker_deal_write_event ==
  \E qi \in Priorities :
     \E fetched \in 1..Len(FetchOrder(qi)) :
        \E done \in SUBSET Range(FirstN(FetchOrder(qi), fetched)) :
           Begin(WORK_THREAD, "deal_write_event", lk_deal_write_event(qi, fetched, done))

\* send_ping_message and the PING_RESPONSE of deal_message
lk_worker_insert_head ==
  Begin(WORK_THREAD, "insert_into_send_queue_head", lk_push_to_send_queue(PRIORITY_HIGH))

\* ------------------------------------------------------------ the callers
lk_caller_push ==
  \E priority \in Priorities :
     Begin(CALLER_THREAD, "push_to_send_queue", lk_push_to_send_queue(priority))

lk_caller_make_connections ==
  \E n \in 1..MaxReleased, co \in ConnectResults :
     Begin(CALLER_THREAD, "machine_make_connections", MakeEach(n, FALSE, co))

lk_caller_stop_reconnect ==
  Begin(CALLER_THREAD, "machine_stop_reconnect", lk_locked)

NoCall == [needLock |-> FALSE, found |-> FALSE, pSockContext |-> 0, held |-> FALSE]

InitLocks ==
  /\ InitNio(0, FALSE, 0, 0, 0)
  /\ hs = NoHandshake /\ ctl = NoController /\ rd = NoReader /\ rr = NoArray
  /\ dm = NoDispatch /\ sw = NoPass /\ ch = NoChannel /\ ins = NoInsert /\ mt = NoTable
  /\ lk = [owner |-> [l \in Locks |-> NOBODY],
           held |-> [t \in Threads |-> << >>],
           todo |-> [t \in Threads |-> << >>],
           path |-> [t \in Threads |-> ""],
           hung |-> [t \in Threads |-> FALSE],
           connections |-> << >>,
           call |-> NoCall]

NextLocks ==
  \/ lk_deal_connect_events
  \/ lk_income_connection
  \/ lk_timeout_connections
  \/ lk_reconnect
  \/ lk_worker_close_socket
  \/ lk_worker_deal_write_event
  \/ lk_worker_insert_head
  \/ lk_caller_push
  \/ lk_caller_make_connections
  \/ lk_caller_stop_reconnect
  \/ lk_step

SpecLocks == InitLocks /\ [][NextLocks]_vars

\* ---------------------------------------------------------------- C31
\* C31: locks are acquired downward only, in the order controller lock,
\* per-worker lock, per-queue lock: no thread holds a per-worker or per-queue
\* lock it acquired before a controller lock it holds, and none holds a
\* per-queue lock it acquired before a per-worker lock it holds; on the
\* hand-off, close, drain and producer paths and on every other path.
C31_LocksDownward ==
  lk # NoLocks =>
    \A t \in Threads :
       \A i, j \in 1..Len(lk.held[t]) :
          i < j => Rank(lk.held[t][i]) <= Rank(lk.held[t][j])

\* the worker is in clear_send_queue of close_socket with a queue lock, the
\* connect thread has the controller lock and is handing a socket over
C31_Witness ==
  /\ lk # NoLocks
  /\ lk.path[WORK_THREAD] = "close_socket"
  /\ lk.owner[QueueLock(PRIORITY_HIGH)] = WORK_THREAD
  /\ lk.path[CONNECT_THREAD] = "deal_connect_events"
  /\ lk.owner[CONTROLLER_LOCK] = CONNECT_THREAD
  /\ \E k \in 1..Len(lk.todo[CONNECT_THREAD]) :
        lk.todo[CONNECT_THREAD][k].lock = WORKER_LOCK
  /\ lk.path[CALLER_THREAD] = "push_to_send_queue"

\* ---------------------------------------------------------------- C33
\* the next lock call of thread t is an acquire of a lock t holds
Relocks(t) ==
  /\ lk.todo[t] # << >>
  /\ Head(lk.todo[t]).op = "acquire"
  /\ lk.owner[Head(lk.todo[t]).lock] = t

\* C33: the connect thread never acquires connect_thread_context.lock while it
\* holds it, and so never blocks on its own lock: close_timeout_connections
\* and do_reconnect, which hold the lock over their loop, come to their
\* release, for client-role and server-role contexts.
C33_ControllerNeverRelocks ==
  lk # NoLocks => ~Relocks(CONNECT_THREAD) /\ ~lk.hung[CONNECT_THREAD]

\* ----------------------------------------------- remove_connection by itself
\* remove_connection(pSockContext, needLock) on the connect thread, for every
\* content of connect_thread_context.connections and every socket context, in
\* the list or not.  As its callers do, a caller that passes needLock = false
\* holds connect_thread_context.lock and one that passes true does not.
NumListed == 3                \* socket contexts that can be in connections

Listed == 1..NumListed

ConnectionLists ==
  { q \in UNION { [1..k -> Listed] : k \in 0..NumListed } :
      \A i, j \in DOMAIN q : i # j => q[i] # q[j] }

lk_call_remove_connection ==
  /\ Resting(CONNECT_THREAD)
  /\ lk.call = NoCall
  /\ \E pSockContext \in Listed, needLock \in BOOLEAN :
       LET found == InSeq(lk.connections, pSockContext)
       IN lk' = [lk EXCEPT
                   !.owner[CONTROLLER_LOCK] = IF needLock THEN NOBODY ELSE CONNECT_THREAD,
                   !.held[CONNECT_THREAD] = IF needLock THEN << >>
                                            ELSE << CONTROLLER_LOCK >>,
                   !.todo[CONNECT_THREAD] = lk_remove_connection(needLock, found),
                   !.path[CONNECT_THREAD] = "remove_connection",
                   !.connections = Without(@, pSockContext),
                   !.call = [needLock |-> needLock, found |-> found,
                             pSockContext |-> pSockContext, held |-> ~needLock]]
  /\ UNCHANGED << niov, hs, ctl, rd, rr, dm, sw, ch, ins, mt >>

\* the caller goes on after the return and releases the lock it took
lk_return_remove_connection ==
  /\ Resting(CONNECT_THREAD)
  /\ lk.call # NoCall
  /\ lk' = [lk EXCEPT !.owner[CONTROLLER_LOCK] = NOBODY,
                      !.held[CONNECT_THREAD] = << >>,
                      !.path[CONNECT_THREAD] = "",
                      !.call = NoCall]
  /\ UNCHANGED << niov, hs, ctl, rd, rr, dm, sw, ch, ins, mt >>

InitRemove ==
  /\ InitNio(0, FALSE, 0, 0, 0)
  /\ hs = NoHandshake /\ ctl = NoController /\ rd = NoReader /\ rr = NoArray
  /\ dm = NoDispatch /\ sw = NoPass /\ ch = NoChannel /\ ins = NoInsert /\ mt = NoTable
  /\ \E q \in ConnectionLists :
       lk = [owner |-> [l \in Locks |-> NOBODY],
             held |-> [t \in Threads |-> << >>],
             todo |-> [t \in Threads |-> << >>],
             path |-> [t \in Threads |-> ""],
             hung |-> [t \in Threads |-> FALSE],
             connections |-> q,
             call |-> NoCall]

NextRemove ==
  \/ lk_call_remove_connection
  \/ lk_step
  \/ lk_return_remove_connection

SpecRemove == InitRemove /\ [][NextRemove]_vars

MAX_MACHINE_COUNT == 3        \* scaled number of slots of machine_sockets
MaxIp == 4                    \* peers have the ips 1..MaxIp
num_of_cluster_connections == 2
MaxWorkers == 4               \* largest num_of_cluster_threads

Slots == 0..(MAX_MACHINE_COUNT - 1)
PeerIps == 1..MaxIp
half_connections_per_machine == num_of_cluster_connections \div 2
PerMachine == 2 * half_connections_per_machine
Pool == 1..(PerMachine * MAX_MACHINE_COUNT)

\* init_socket_contexts: the slot, the role and the worker of socket context k
MachineIndexOf(k) == (k - 1) \div PerMachine
RoleOf(k) ==
  IF (k - 1) % PerMachine < half_connections_per_machine THEN CONNECT_TYPE_SERVER
  ELSE CONNECT_TYPE_CLIENT
ThreadIndexOf(k, num_of_cluster_threads) == (k - 1) % num_of_cluster_threads

\* nio_init: alloc_size of every worker
max_connections_per_thread(num_of_cluster_threads) ==
  LET total_connections == num_of_cluster_connections * (MAX_MACHINE_COUNT - 1)
  IN (total_connections \div num_of_cluster_threads)
       + (IF total_connections % num_of_cluster_threads # 0 THEN 1 ELSE 0)

\* the loop of get_machine_index and alloc_machine_index: the first index
\* (id + count) % MAX_MACHINE_COUNT, count <= MAX_MACHINE_COUNT, whose ip is want
RECURSIVE Probe(_, _, _, _)
Probe(ips, want, id, count) ==
  IF count > MAX_MACHINE_COUNT THEN 0 - 1
  ELSE IF ips[(id + count) % MAX_MACHINE_COUNT] = want
  THEN (id + count) % MAX_MACHINE_COUNT
  ELSE Probe(ips, want, id, count + 1)

\* get_machine_index that looks at the slot ip % MAX_MACHINE_COUNT only
get_machine_index_home(ips, ip) ==
  IF ips[ip % MAX_MACHINE_COUNT] = ip THEN ip % MAX_MACHINE_COUNT ELSE 0 - 1

\* get_machine_index
get_machine_index(ips, ip) ==
  IF ips[ip % MAX_MACHINE_COUNT] = ip THEN ip % MAX_MACHINE_COUNT
  ELSE Probe(ips, ip, ip % MAX_MACHINE_COUNT, 1)

\* alloc_machine_index
alloc_machine_index(ips, ip) ==
  IF ips[ip % MAX_MACHINE_COUNT] = 0 THEN ip % MAX_MACHINE_COUNT
  ELSE Probe(ips, 0, ip % MAX_MACHINE_COUNT, 1)

\* the first lines of alloc_connect_sock_context and alloc_accept_sock_context:
\* the slot of machine_ip, a new one when it has none; -1 when there is none
SlotFor(st, machine_ip) ==
  IF get_machine_index(st.ip, machine_ip) >= 0 THEN get_machine_index(st.ip, machine_ip)
  ELSE alloc_machine_index(st.ip, machine_ip)

\* alloc_connect_sock_context / alloc_accept_sock_context for the freelist list
mt_alloc_sock_context(st, list, machine_ip) ==
  LET machine_id == SlotFor(st, machine_ip)
      slotted == [st EXCEPT !.ip[machine_id] = machine_ip,
                            !.stored[machine_ip] =
                               IF @ = 0 - 1 THEN machine_id ELSE @]
  IN IF machine_id < 0 THEN [st EXCEPT !.refused = TRUE]
     ELSE IF st[list][machine_id] = << >> THEN slotted
     ELSE [slotted EXCEPT ![list][machine_id] = Tail(@),
                          !.taken = @ \cup { Head(st[list][machine_id]) },
                          !.machine[Head(st[list][machine_id])] = machine_ip]

\* free_accept_sock_context / free_connect_sock_context for the freelist list;
\* machine is written again before a context of a freelist is used and is
\* kept as 0 there
mt_free_sock_context(st, list, pSockContext) ==
  LET machine_id == get_machine_index(st.ip, st.machine[pSockContext])
  IN IF machine_id < 0 THEN st
     ELSE [st EXCEPT ![list][machine_id] = << pSockContext >> \o @,
                     !.machine[pSockContext] = 0]

\* machine_make_connections: alloc_connect_sock_context for a peer
mt_alloc_connect_sock_context ==
  /\ mt # NoTable
  /\ \E machine_ip \in PeerIps :
       mt' = mt_alloc_sock_context(mt, "connect_free_list", machine_ip)
  /\ UNCHANGED << niov, hs, ctl, rd, rr, dm, sw, ch, ins, lk >>

\* deal_income_connection: alloc_accept_sock_context for a peer
mt_alloc_accept_sock_context ==
  /\ mt # NoTable
  /\ \E machine_ip \in PeerIps :
       mt' = mt_alloc_sock_context(mt, "accept_free_list", machine_ip)
  /\ UNCHANGED << niov, hs, ctl, rd, rr, dm, sw, ch, ins, lk >>

\* nio_add_to_epoll at the end of a handshake: add_to_active_sockets
mt_nio_add_to_epoll ==
  /\ mt # NoTable
  /\ \E pSockContext \in mt.taken :
       mt' = [mt EXCEPT !.taken = @ \ { pSockContext },
                        !.active_sockets[ThreadIndexOf(pSockContext, mt.threads)] =
                           Append(@, pSockContext)]
  /\ UNCHANGED << niov, hs, ctl, rd, rr, dm, sw, ch, ins, lk >>

\* close_socket: remove_from_active_sockets, then make_connection for a
\* client-role context and free_accept_sock_context for a server-role one
mt_close_socket ==
  /\ mt # NoTable
  /\ \E thread_index \in DOMAIN mt.active_sockets :
       \E i \in 1..Len(mt.active_sockets[thread_index]) :
          LET pSockContext == mt.active_sockets[thread_index][i]
              removed == [mt EXCEPT !.active_sockets[thread_index] = RemoveAt(@, i)]
          IN mt' = IF RoleOf(pSockContext) = CONNECT_TYPE_CLIENT
                   THEN [removed EXCEPT !.taken = @ \cup { pSockContext }]
                   ELSE mt_free_sock_context(removed, "accept_free_list", pSockContext)
  /\ UNCHANGED << niov, hs, ctl, rd, rr, dm, sw, ch, ins, lk >>

\* a context the connect thread gives up: release_connection of a server-role
\* context, do_reconnect of a client-role context without need_reconnect
mt_free_sock_context_of ==
  /\ mt # NoTable
  /\ \E pSockContext \in mt.taken :
       mt' = mt_free_sock_context(
               [mt EXCEPT !.taken = @ \ { pSockContext }],
               IF RoleOf(pSockContext) = CONNECT_TYPE_CLIENT THEN "connect_free_list"
               ELSE "accept_free_list", pSockContext)
  /\ UNCHANGED << niov, hs, ctl, rd, rr, dm, sw, ch, ins, lk >>

\* connection_init and nio_init, for every number of workers
InitTable ==
  /\ InitNio(0, FALSE, 0, 0, 0)
  /\ hs = NoHandshake /\ ctl = NoController /\ rd = NoReader /\ rr = NoArray
  /\ dm = NoDispatch /\ sw = NoPass /\ ch = NoChannel /\ ins = NoInsert /\ lk = NoLocks
  /\ \E num_of_cluster_threads \in 1..MaxWorkers :
       mt = [threads |-> num_of_cluster_threads,
             ip |-> [i \in Slots |-> 0],
             stored |-> [a \in PeerIps |-> 0 - 1],
             refused |-> FALSE,
             accept_free_list |->
               [i \in Slots |->
                  InOrder({ k \in Pool : MachineIndexOf(k) = i
                                         /\ RoleOf(k) = CONNECT_TYPE_SERVER })],
             connect_free_list |->
               [i \in Slots |->
                  InOrder({ k \in Pool : MachineIndexOf(k) = i
                                         /\ RoleOf(k) = CONNECT_TYPE_CLIENT })],
             taken |-> { },
             machine |-> [k \in Pool |-> 0],
             active_sockets |-> [t \in 0..(num_of_cluster_threads - 1) |-> << >>]]

NextTable ==
  \/ mt_alloc_connect_sock_context
  \/ mt_alloc_accept_sock_context
  \/ mt_nio_add_to_epoll
  \/ mt_close_socket
  \/ mt_free_sock_context_of

SpecTable == InitTable /\ [][NextTable]_vars

\* ---------------------------------------------------------------- C40
Occupied == { i \in Slots : mt.ip[i] # 0 }

\* C40: distinct peer ips have distinct slots; get_machine_index(ip) is the
\* slot in which ip was stored, for every stored ip, whatever other ips share
\* its ip % MAX_MACHINE_COUNT, and -1 for an ip never stored; and
\* alloc_machine_index returns -1 exactly when every slot is occupied.
C40_TableLookup ==
  mt # NoTable =>
    /\ \A i, j \in Occupied : mt.ip[i] = mt.ip[j] => i = j
    /\ \A a \in PeerIps :
          /\ get_machine_index(mt.ip, a) = mt.stored[a]
          /\ mt.stored[a] >= 0 => mt.ip[mt.stored[a]] = a
          /\ (alloc_machine_index(mt.ip, a) = 0 - 1) <=> (Occupied = Slots)
    /\ mt.refused => Occupied = Slots

\* the table is full, two ips of the same home slot are stored, one of them
\* away from it, and a further peer was refused
C40_Witness ==
  /\ mt # NoTable
  /\ mt.refused
  /\ \E a, b \in PeerIps :
        /\ a # b /\ a % MAX_MACHINE_COUNT = b % MAX_MACHINE_COUNT
        /\ mt.stored[a] = a % MAX_MACHINE_COUNT
        /\ mt.stored[b] >= 0 /\ mt.stored[b] # b % MAX_MACHINE_COUNT

\* ---------------------------------------------------------------- C34
\* C34: the active_sock_count of a worker never exceeds the alloc_size of its
\* active_sockets, whichever slots the peers (at most MAX_MACHINE_COUNT - 1)
\* have in the table and whichever contexts are handed off.
C34_ActiveWithinAllocSize ==
  (mt # NoTable /\ Cardinality(Occupied) <= MAX_MACHINE_COUNT - 1) =>
     \A t \in DOMAIN mt.active_sockets :
        Len(mt.active_sockets[t]) <= max_connections_per_thread(mt.threads)

====
